---- MODULE Spec2Model ----
(***************************************************************************)
(* seoq: the sitemap crawler (analyzeSitemap, lib/sitemap.ts) and the      *)
(* bounded-concurrency page analysis (analyzePages, lib/seo-analyzer.ts).  *)
(*                                                                         *)
(* A URL string is modelled by its components: [origin, pathname, search]. *)
(* Two URL strings are equal iff the three components are equal.           *)
(***************************************************************************)
EXTENDS Integers, Sequences, FiniteSets, TLC

VARIABLES
    web,          \* what the network serves: URL -> sitemap document
    limit,        \* analyzeSitemap's limit argument
    results,      \* analyzeSitemap: const results: SitemapResult[]
    visitedUrls,  \* analyzeSitemap: const visitedUrls = new Set<string>()
    stack,        \* the chain of suspended processSitemap calls, innermost last
    fetchLog,     \* every fetch(sitemapUrl) issued so far, in order
    smState,      \* "running" | "returned" | "failed": the promise of analyzeSitemap
    smError,      \* the error analyzeSitemap failed with ("": none)
    smPrevious,   \* the outcome of the call of analyzeSitemap before this one
    returned      \* the list analyzeSitemap resolved with (<<>> until then)

smVars == <<web, limit, results, visitedUrls, stack, fetchLog, smState, smError,
           smPrevious, returned>>

VARIABLES
    urls,         \* analyzePages: the urls argument
    concurrency,  \* options.concurrency ?? 1
    maxIssues,    \* options.maxIssues ?? 3
    apiKey,       \* process.env.OPENAI_API_KEY is set
    variant,      \* "fetch": plain HTTP fetch per page; "browser": one shared browser
    task,         \* per index: "queued" | "fetching" | "extracting" | "done" | "rejected"
    activeCount,  \* p-limit's count of running functions
    pgResults,    \* analyzePages: const results: PageAnalysisResult[]
    calls,        \* the onProgress and onComplete invocations so far, in order
    browser,      \* "none" | "open" | "closed"
    launches,     \* number of browsers launched
    closes,       \* number of browser.close() calls completed
    pgState,      \* "called" | "awaiting" | "closing" | "resolved" | "rejected"
    pgError,      \* the error analyzePages rejects with (<<>>: none)
    caught,       \* per index: the error caught by the per-page function (<<>>: none)
    pgReturned    \* the list analyzePages resolved with (<<>> until then)

pgVars == <<urls, concurrency, maxIssues, apiKey, variant, task, activeCount,
            pgResults, calls, browser, launches, closes, pgState, pgError, caught,
            pgReturned>>

VARIABLES
    fnName,       \* the library function under evaluation ("": none)
    fnArg,        \* its argument
    fnResult,     \* its return value
    fnState       \* "called" | "returned"

fnVars == <<fnName, fnArg, fnResult, fnState>>

VARIABLES
    cliOptions,   \* the analyze command: the url argument and the options commander hands over
    cliPc,        \* where the action handler stands
    cliCalls,     \* the calls of analyzeSitemap and analyzePages made so far
    cliError,     \* the error caught by the action handler ("": none)
    exitCode      \* the exit code of the process (-1: still running)

cliVars == <<cliOptions, cliPc, cliCalls, cliError, exitCode>>

VARIABLES
    fpCaller,     \* the call under study: fetchPageContent or compareSites, and where it stands
    fpBrowser,    \* the browser handed to fetchPageContent as its browser argument
    fpCalls       \* the fetchPageContent calls: their locals and where they stand

fpVars == <<fpCaller, fpBrowser, fpCalls>>

vars == <<smVars, pgVars, fnVars, cliVars, fpVars>>

\* what analyzeSitemap leaves alone, and what analyzePages leaves alone
smOthers == <<smPrevious, pgVars, fnVars, cliVars, fpVars>>
pgOthers == <<smVars, fnVars, cliVars, fpVars>>

----------------------------------------------------------------------------
(* Bounds of the explored inputs *)

MaxLimit == 3
MaxEntries == 5
MaxChildren == 2
NumPages == 3
MaxDepth == 4
MaxUrls == 3
MaxConcurrency == 3
MaxIssuesOption == 2
MaxFindings == 2

----------------------------------------------------------------------------
(* URLs *)

DEFAULT_SITEMAP_PATH == "/sitemap.xml"

SiteOrigin == "https://site.test"

Url(o, p, s) == [origin |-> o, pathname |-> p, search |-> s]

UrlA  == Url(SiteOrigin, "/sitemap.xml", "")
UrlB  == Url(SiteOrigin, "/a.xml", "")
UrlC  == Url(SiteOrigin, "/b.xml", "")
UrlCq == Url(SiteOrigin, "/b.xml", "?page=2")

\* the locations a sitemap index of the explored inputs may declare
Locs == {UrlA, UrlB, UrlC, UrlCq}

\* new URL(path, url).toString(), path being a pathname ("" is falsy: the default)
ResolveSitemapUrl(url, path) ==
    IF path # "" THEN Url(url, path, "") ELSE Url(url, DEFAULT_SITEMAP_PATH, "")

\* new URL(loc).origin and new URL(loc).pathname
OriginOf(loc) == loc.origin
PathnameOf(loc) == loc.pathname

----------------------------------------------------------------------------
(* Sitemap documents *)

NoPriority == -1

\* a <url> entry; priorities are in tenths (5 is 0.5)
UrlEntry(p) == [loc |-> p, priority |-> IF p % 2 = 0 THEN 5 ELSE NoPriority]

\* z.union([entry, z.array(entry)]): one entry object or an array of them
Body(isArray, items) == [isArray |-> isArray, items |-> items]

EmptyBody == Body(TRUE, <<>>)

\* Array.isArray(x) ? x : [x]
ToArray(body) == IF body.isArray THEN body.items ELSE <<body.items[1]>>

Doc(ok, wellFormed, hasIndex, sitemap, hasUrlset, url) ==
    [ok |-> ok, wellFormed |-> wellFormed,
     hasIndex |-> hasIndex, sitemap |-> sitemap,
     hasUrlset |-> hasUrlset, url |-> url]

HttpErrorDoc == Doc(FALSE, TRUE, FALSE, EmptyBody, FALSE, EmptyBody)
MalformedDoc == Doc(TRUE, FALSE, FALSE, EmptyBody, FALSE, EmptyBody)
NeitherDoc   == Doc(TRUE, TRUE, FALSE, EmptyBody, FALSE, EmptyBody)

FailingDocs == {HttpErrorDoc, MalformedDoc, NeitherDoc}

\* the page that only the urlset of BothDoc lists
OwnPage == NumPages + 3

\* a parsed document holding both a sitemapindex and a urlset member (the
\* schemas are non-strict objects: each ignores the other member)
BothDoc ==
    Doc(TRUE, TRUE, TRUE, Body(TRUE, <<UrlB>>),
        TRUE, Body(TRUE, <<UrlEntry(OwnPage)>>))

IndexDoc(body) == Doc(TRUE, TRUE, TRUE, body, FALSE, EmptyBody)
LeafDoc(body)  == Doc(TRUE, TRUE, FALSE, EmptyBody, TRUE, body)

SeqsUpTo(S, n) == UNION {[1..k -> S] : k \in 1..n}

IndexBodies(L) ==
    {Body(TRUE, s) : s \in SeqsUpTo(L, MaxChildren)}
        \cup {Body(FALSE, <<l>>) : l \in L}

\* the leaf served at a document lists n consecutive pages (cyclically),
\* starting at a page that depends on the document
FirstPage(u) ==
    IF u = UrlA THEN 0 ELSE IF u = UrlB THEN 1 ELSE IF u = UrlC THEN 2 ELSE 0

LeafItems(u, n) == [i \in 1..n |-> UrlEntry(((FirstPage(u) + i - 1) % NumPages) + 1)]

LeafBodies(u) ==
    {Body(TRUE, LeafItems(u, n)) : n \in 1..MaxEntries}
        \cup {Body(FALSE, LeafItems(u, 1))}

LeafDocs(u) == {LeafDoc(b) : b \in LeafBodies(u)}

IndexDocs(L) == {IndexDoc(b) : b \in IndexBodies(L)}

\* the documents explored at each URL: the root and /a.xml may be anything
\* (self-reference is explored at the root), /b.xml is a leaf or fails, and
\* /b.xml?page=2 is a fixed leaf that differs from every leaf at /b.xml
QueryLeaf == LeafDoc(Body(TRUE, <<UrlEntry(NumPages + 1), UrlEntry(NumPages + 2)>>))

DocsAt(u) ==
    IF u = UrlA THEN FailingDocs \cup LeafDocs(u) \cup IndexDocs(Locs) \cup {BothDoc}
    ELSE IF u = UrlB THEN FailingDocs \cup LeafDocs(u) \cup IndexDocs(Locs \ {UrlB})
    ELSE IF u = UrlC THEN FailingDocs \cup LeafDocs(u)
    ELSE {QueryLeaf}

\* document d is an index with a child at the path of u
Refers(d, u) ==
    /\ d.hasIndex
    /\ \E i \in DOMAIN d.sitemap.items : d.sitemap.items[i].pathname = u.pathname

WebOf(a, b, c) ==
    [u \in Locs |-> IF u = UrlA THEN a
                    ELSE IF u = UrlB THEN b
                    ELSE IF u = UrlC THEN c
                    ELSE QueryLeaf]

\* a document that no index refers to is never requested: it is held fixed
DocsB(a) == IF Refers(a, UrlB) THEN DocsAt(UrlB) ELSE {NeitherDoc}

DocsC(a, b) ==
    IF Refers(a, UrlC) \/ (Refers(a, UrlB) /\ Refers(b, UrlC))
    THEN DocsAt(UrlC) ELSE {NeitherDoc}

IsWeb(w) ==
    \E a \in DocsAt(UrlA) : \E b \in DocsB(a) : \E c \in DocsC(a, b) :
        w = WebOf(a, b, c)

----------------------------------------------------------------------------
(* analyzeSitemap *)

\* the errors analyzeSitemap fails with
FetchSitemapFailedText == "Failed to fetch sitemap: "
ParseXmlFailedText == "Failed to parse XML: "
ZodErrorName == "ZodError"

\* parser.parse(xml) throws
ParseThrows(doc) == ~doc.wellFormed

\* the urlset shape tried first
isSitemapIndexAfterLeaf(parsed) == parsed.hasIndex /\ ~parsed.hasUrlset

\* sitemapIndexSchema.parse(sitemap) succeeds
isSitemapIndex(parsed) == parsed.hasIndex

\* sitemapSchema.parse(parsed) succeeds
IsSitemap(parsed) == parsed.hasUrlset

\* a suspended call processSitemap(url, path); loc is the location it was called for
Frame(url, path, loc) ==
    [url |-> url, path |-> path, loc |-> loc, pc |-> "enter", items |-> <<>>]

Top == stack[Len(stack)]

Pop == SubSeq(stack, 1, Len(stack) - 1)

ReplaceTop(f) == [stack EXCEPT ![Len(stack)] = f]

Running == smState = "running" /\ stack # <<>>

\* the limit test off by one
LimitReachedOffByOne == Len(results) > limit

LimitReached == Len(results) >= limit

\* the visited-set never consulted
NeverVisited(sitemapUrl) == FALSE

AlreadyVisited(sitemapUrl) == sitemapUrl \in visitedUrls

\* no earlier call of analyzeSitemap
NoPrevious == [state |-> "none", returned |-> <<>>, fetchLog |-> <<>>, error |-> ""]

\* no library function under evaluation
FnIdle ==
    /\ fnName = ""
    /\ fnArg = <<>>
    /\ fnResult = <<>>
    /\ fnState = "idle"

\* the analyze command not run
CliIdle ==
    /\ cliOptions = <<>>
    /\ cliPc = "idle"
    /\ cliCalls = <<>>
    /\ cliError = ""
    /\ exitCode = -1

\* neither fetchPageContent nor compareSites called
FpIdle ==
    /\ fpCaller = [fn |-> "", pc |-> "idle", shouldCloseBrowser |-> FALSE]
    /\ fpBrowser = [state |-> "none", closedBy |-> {}]
    /\ fpCalls = <<>>

\* analyzePages not called
PgIdle ==
    /\ urls = <<>>
    /\ concurrency = 1
    /\ maxIssues = 1
    /\ apiKey = TRUE
    /\ variant = "fetch"
    /\ task = <<>>
    /\ activeCount = 0
    /\ pgResults = <<>>
    /\ calls = <<>>
    /\ browser = "none"
    /\ launches = 0
    /\ closes = 0
    /\ pgState = "idle"
    /\ pgError = <<>>
    /\ caught = <<>>
    /\ pgReturned = <<>>

SmInit ==
    /\ IsWeb(web)
    /\ limit \in 1..MaxLimit
    /\ results = <<>>
    /\ visitedUrls = {}
    /\ stack = <<Frame(SiteOrigin, DEFAULT_SITEMAP_PATH,
                       ResolveSitemapUrl(SiteOrigin, DEFAULT_SITEMAP_PATH))>>
    /\ fetchLog = <<>>
    /\ smState = "running"
    /\ smError = ""
    /\ smPrevious = NoPrevious
    /\ returned = <<>>
    /\ PgIdle
    /\ FnIdle
    /\ CliIdle
    /\ FpIdle

\* the URL marked as visited only once its document was fetched and classified
ProcessSitemapEnterAddsLate ==
    /\ Running
    /\ Top.pc = "enter"
    /\ LET sitemapUrl == ResolveSitemapUrl(Top.url, Top.path) IN
        IF LimitReached \/ AlreadyVisited(sitemapUrl)
        THEN /\ stack' = Pop
             /\ UNCHANGED <<visitedUrls, fetchLog>>
        ELSE /\ visitedUrls' =
                    visitedUrls \cup {fetchLog[i].url : i \in DOMAIN fetchLog}
             /\ fetchLog' = Append(fetchLog,
                    [url |-> ResolveSitemapUrl(Top.url, Top.path), loc |-> Top.loc])
             /\ stack' = ReplaceTop([Top EXCEPT !.pc = "fetch"])
    /\ UNCHANGED <<web, limit, results, smState, returned>>
    /\ UNCHANGED <<smError, smOthers>>

\* processSitemap up to its first await: the limit check, the visited check,
\* visitedUrls.add, and the fetch issued by fetchSitemap
ProcessSitemapEnter ==
    /\ Running
    /\ Top.pc = "enter"
    /\ LET sitemapUrl == ResolveSitemapUrl(Top.url, Top.path) IN
        IF LimitReached \/ AlreadyVisited(sitemapUrl)
        THEN /\ stack' = Pop
             /\ UNCHANGED <<visitedUrls, fetchLog>>
        ELSE /\ visitedUrls' = visitedUrls \cup {sitemapUrl}
             /\ fetchLog' = Append(fetchLog,
                    [url |-> ResolveSitemapUrl(Top.url, Top.path), loc |-> Top.loc])
             /\ stack' = ReplaceTop([Top EXCEPT !.pc = "fetch"])
    /\ UNCHANGED <<web, limit, results, smState, returned>>
    /\ UNCHANGED <<smError, smOthers>>

\* a failure swallowed: the entries accumulated so far are returned
FailReturnsPartial ==
    /\ smState' = "returned"
    /\ returned' = results
    /\ stack' = <<>>
    /\ UNCHANGED <<web, limit, results, visitedUrls, fetchLog>>
    /\ UNCHANGED smOthers

Fail ==
    /\ smState' = "failed"
    /\ stack' = <<>>
    /\ UNCHANGED <<web, limit, results, visitedUrls, fetchLog, returned>>
    /\ UNCHANGED smOthers

Response == web[fetchLog[Len(fetchLog)].url]

\* fetchSitemap: !response.ok
FetchNotOk ==
    /\ Running
    /\ Top.pc = "fetch"
    /\ ~Response.ok
    /\ smError' = FetchSitemapFailedText
    /\ Fail

\* parseSitemap throws
ParseFails ==
    /\ Running
    /\ Top.pc = "fetch"
    /\ Response.ok
    /\ ParseThrows(Response)
    /\ smError' = ParseXmlFailedText
    /\ Fail

\* isSitemapIndex(parsed): the list of child sitemaps
ParsedAsIndex ==
    /\ Running
    /\ Top.pc = "fetch"
    /\ Response.ok
    /\ ~ParseThrows(Response)
    /\ isSitemapIndex(Response)
    /\ stack' = ReplaceTop([Top EXCEPT !.pc = "index",
                                       !.items = ToArray(Response.sitemap)])
    /\ UNCHANGED <<web, limit, results, visitedUrls, fetchLog, smState, returned>>
    /\ UNCHANGED <<smError, smOthers>>

\* else branch: sitemapSchema.parse(parsed) throws
SchemaFails ==
    /\ Running
    /\ Top.pc = "fetch"
    /\ Response.ok
    /\ ~ParseThrows(Response)
    /\ ~isSitemapIndex(Response)
    /\ ~IsSitemap(Response)
    /\ smError' = ZodErrorName
    /\ Fail

\* else branch: the list of url entries
ParsedAsLeaf ==
    /\ Running
    /\ Top.pc = "fetch"
    /\ Response.ok
    /\ ~ParseThrows(Response)
    /\ ~isSitemapIndex(Response)
    /\ IsSitemap(Response)
    /\ stack' = ReplaceTop([Top EXCEPT !.pc = "leaf",
                                       !.items = ToArray(Response.url)])
    /\ UNCHANGED <<web, limit, results, visitedUrls, fetchLog, smState, returned>>
    /\ UNCHANGED <<smError, smOthers>>

\* the children started together instead of one awaited after the other
IndexLoopStartsAll ==
    /\ Running
    /\ Top.pc = "index"
    /\ IF Top.items = <<>> \/ LimitReached
       THEN stack' = Pop
       ELSE /\ Len(stack) + Len(Top.items) <= MaxDepth
            /\ stack' = ReplaceTop([Top EXCEPT !.items = <<>>]) \o
                    [k \in 1..Len(Top.items) |->
                        LET sitemapEntry == Top.items[Len(Top.items) + 1 - k] IN
                            Frame(OriginOf(sitemapEntry), PathnameOf(sitemapEntry),
                                  sitemapEntry)]
    /\ UNCHANGED <<web, limit, results, visitedUrls, fetchLog, smState, returned>>
    /\ UNCHANGED <<smError, smOthers>>

\* one iteration of: for (const sitemapEntry of sitemaps)
IndexLoop ==
    /\ Running
    /\ Top.pc = "index"
    /\ IF Top.items = <<>> \/ LimitReached
       THEN stack' = Pop
       ELSE /\ Len(stack) < MaxDepth
            /\ LET sitemapEntry == Head(Top.items) IN
                stack' = Append(ReplaceTop([Top EXCEPT !.items = Tail(Top.items)]),
                                Frame(OriginOf(sitemapEntry), PathnameOf(sitemapEntry),
                                      sitemapEntry))
    /\ UNCHANGED <<web, limit, results, visitedUrls, fetchLog, smState, returned>>
    /\ UNCHANGED <<smError, smOthers>>

SitemapResult(urlEntry) == [url |-> urlEntry.loc, priority |-> urlEntry.priority]

\* the url loop without its limit check
LeafLoopNoLimitCheck ==
    /\ Running
    /\ Top.pc = "leaf"
    /\ IF Top.items = <<>>
       THEN /\ stack' = Pop
            /\ UNCHANGED results
       ELSE /\ results' = Append(results, SitemapResult(Head(Top.items)))
            /\ stack' = ReplaceTop([Top EXCEPT !.items = Tail(Top.items)])
    /\ UNCHANGED <<web, limit, visitedUrls, fetchLog, smState, returned>>
    /\ UNCHANGED <<smError, smOthers>>

\* one iteration of: for (const urlEntry of urls)
LeafLoop ==
    /\ Running
    /\ Top.pc = "leaf"
    /\ IF Top.items = <<>> \/ LimitReached
       THEN /\ stack' = Pop
            /\ UNCHANGED results
       ELSE /\ results' = Append(results, SitemapResult(Head(Top.items)))
            /\ stack' = ReplaceTop([Top EXCEPT !.items = Tail(Top.items)])
    /\ UNCHANGED <<web, limit, visitedUrls, fetchLog, smState, returned>>
    /\ UNCHANGED <<smError, smOthers>>

\* await processSitemap(baseUrl, sitemapPath) is over: return results
Return ==
    /\ smState = "running"
    /\ stack = <<>>
    /\ smState' = "returned"
    /\ returned' = results
    /\ UNCHANGED <<web, limit, results, visitedUrls, stack, fetchLog>>
    /\ UNCHANGED <<smError, smOthers>>

SmNext ==
    \/ ProcessSitemapEnter
    \/ FetchNotOk
    \/ ParseFails
    \/ ParsedAsIndex
    \/ SchemaFails
    \/ ParsedAsLeaf
    \/ IndexLoop
    \/ LeafLoop
    \/ Return

SitemapSpec == SmInit /\ [][SmNext]_vars

\* a second call of analyzeSitemap that goes on with the set and the list
\* of the first one
AnalyzeSitemapAgainSharedState ==
    /\ smState \in {"returned", "failed"}
    /\ smPrevious = NoPrevious
    /\ smPrevious' = [state |-> smState, returned |-> returned,
                      fetchLog |-> fetchLog, error |-> smError]
    /\ stack' = <<Frame(SiteOrigin, DEFAULT_SITEMAP_PATH,
                        ResolveSitemapUrl(SiteOrigin, DEFAULT_SITEMAP_PATH))>>
    /\ fetchLog' = <<>>
    /\ smState' = "running"
    /\ smError' = ""
    /\ returned' = <<>>
    /\ UNCHANGED <<web, limit, results, visitedUrls, pgVars, fnVars, cliVars, fpVars>>

\* analyzeSitemap called once more, with the same arguments over the same
\* documents: const results = [], const visitedUrls = new Set()
AnalyzeSitemapAgain ==
    /\ smState \in {"returned", "failed"}
    /\ smPrevious = NoPrevious
    /\ smPrevious' = [state |-> smState, returned |-> returned,
                      fetchLog |-> fetchLog, error |-> smError]
    /\ results' = <<>>
    /\ visitedUrls' = {}
    /\ stack' = <<Frame(SiteOrigin, DEFAULT_SITEMAP_PATH,
                        ResolveSitemapUrl(SiteOrigin, DEFAULT_SITEMAP_PATH))>>
    /\ fetchLog' = <<>>
    /\ smState' = "running"
    /\ smError' = ""
    /\ returned' = <<>>
    /\ UNCHANGED <<web, limit, pgVars, fnVars, cliVars, fpVars>>

RepeatNext ==
    \/ SmNext
    \/ AnalyzeSitemapAgain

RepeatedSitemapSpec == SmInit /\ [][RepeatNext]_vars

SitemapLive == SmInit /\ [][SmNext]_vars /\ WF_vars(SmNext)

Done == smState # "running"

----------------------------------------------------------------------------
(* Claims about analyzeSitemap *)

Take(s, n) == SubSeq(s, 1, IF Len(s) < n THEN Len(s) ELSE n)

IsFailing(d) == ~d.ok \/ ~d.wellFormed \/ (~d.hasIndex /\ ~d.hasUrlset)

FetchCount(u) == Cardinality({i \in DOMAIN fetchLog : fetchLog[i].url = u})

\* C1: the accumulator never holds more than limit entries, and the returned
\* list has length <= limit.
C1_LengthAtMostLimit ==
    /\ Len(results) <= limit
    /\ smState = "returned" => Len(returned) <= limit

\* a 5-entry leaf cut to limit = 3
C1_Witness ==
    /\ smState = "returned"
    /\ limit = 3
    /\ web[UrlA].hasUrlset
    /\ Len(ToArray(web[UrlA].url)) = 5
    /\ Len(returned) = 3

\* the pre-order, depth-first, left-to-right flattening of the sitemap-index
\* tree whose children are the documents at the declared locations, each
\* document contributing on its first visit only
RECURSIVE Flatten(_, _)
Flatten(todo, seen) ==
    IF todo = <<>> THEN <<>>
    ELSE LET u == Head(todo)
             d == web[u]
         IN IF u \in seen \/ IsFailing(d) THEN Flatten(Tail(todo), seen \cup {u})
            ELSE IF d.hasIndex
                 THEN Flatten(ToArray(d.sitemap) \o Tail(todo), seen \cup {u})
                 ELSE [i \in DOMAIN ToArray(d.url) |-> SitemapResult(ToArray(d.url)[i])]
                          \o Flatten(Tail(todo), seen \cup {u})

\* C2: when nothing fails, the returned list is the first min(limit, N)
\* entries of the pre-order flattening of the sitemap-index tree, each entry
\* with its url and its priority (or none).
C2_PreorderPrefix ==
    smState = "returned" => returned = Take(Flatten(<<UrlA>>, {}), limit)

\* the same flattening over the tree as the crawler resolves it: a child is
\* the document at the origin and pathname of its declared location
RECURSIVE FlattenResolved(_, _)
FlattenResolved(todo, seen) ==
    IF todo = <<>> THEN <<>>
    ELSE LET u == ResolveSitemapUrl(OriginOf(Head(todo)), PathnameOf(Head(todo)))
             d == web[u]
         IN IF u \in seen \/ IsFailing(d) THEN FlattenResolved(Tail(todo), seen \cup {u})
            ELSE IF d.hasIndex
                 THEN FlattenResolved(ToArray(d.sitemap) \o Tail(todo), seen \cup {u})
                 ELSE [i \in DOMAIN ToArray(d.url) |-> SitemapResult(ToArray(d.url)[i])]
                          \o FlattenResolved(Tail(todo), seen \cup {u})

PreorderPrefixOfResolvedTree ==
    smState = "returned" => returned = Take(FlattenResolved(<<UrlA>>, {}), limit)

\* C3: within one call each distinct sitemap document URL is fetched at most
\* once.
C3_FetchedAtMostOnce ==
    \A i, j \in DOMAIN fetchLog : fetchLog[i].url = fetchLog[j].url => i = j

\* the index A lists B twice; B was fetched exactly once
C3_Witness ==
    /\ smState = "returned"
    /\ web[UrlA] = IndexDoc(Body(TRUE, <<UrlB, UrlB>>))
    /\ FetchCount(UrlB) = 1

SelfReferencing == web[UrlA].hasIndex /\ ToArray(web[UrlA].sitemap) = <<UrlA>>

\* a call for a document already visited, the limit not reached
AtCycle ==
    /\ Running
    /\ Top.pc = "enter"
    /\ ~LimitReached
    /\ ResolveSitemapUrl(Top.url, Top.path) \in visitedUrls

\* C4: analyzeSitemap eventually returns or fails, also over self-referencing
\* and mutually-referencing indexes; below the limit a call for a visited
\* document returns at once without a fetch; a self-referencing index with no
\* leaf entries returns the empty list.
C4_Terminates ==
    /\ <>Done
    /\ [][AtCycle => (stack' = Pop /\ fetchLog' = fetchLog)]_vars
    /\ [](SelfReferencing /\ Done => smState = "returned" /\ returned = <<>>)

\* A -> B -> A has returned
C4_Witness ==
    /\ smState = "returned"
    /\ web[UrlA] = IndexDoc(Body(TRUE, <<UrlB>>))
    /\ web[UrlB] = IndexDoc(Body(TRUE, <<UrlA>>))
    /\ Len(fetchLog) = 2

\* C5: once the accumulator holds limit entries, no further sitemap document
\* is fetched and no further entry is appended.
C5_NothingAfterLimit ==
    [][LimitReached => (fetchLog' = fetchLog /\ results' = results)]_vars

\* the limit was reached inside B, with entries of B and the sibling C left over
C5_Witness ==
    /\ smState = "returned"
    /\ web[UrlA] = IndexDoc(Body(TRUE, <<UrlB, UrlC>>))
    /\ web[UrlB].hasUrlset
    /\ Len(ToArray(web[UrlB].url)) > limit
    /\ Len(returned) = limit
    /\ FetchCount(UrlC) = 0

FetchedFailing == \E i \in DOMAIN fetchLog : IsFailing(web[fetchLog[i].url])

\* C6: a non-successful response, malformed XML or a document of neither
\* shape, at any depth, fails the whole call; nothing is returned, also not
\* the entries accumulated before.
C6_FailureFailsCall ==
    /\ smState = "failed" => returned = <<>>
    /\ FetchedFailing =>
        /\ smState # "returned"
        /\ returned = <<>>
        /\ smState = "running" =>
            /\ stack # <<>>
            /\ Top.pc = "fetch"
            /\ \A i \in DOMAIN fetchLog :
                  IsFailing(web[fetchLog[i].url]) => i = Len(fetchLog)

\* the third document fetched fails after entries were accumulated
C6_Witness ==
    /\ smState = "failed"
    /\ Len(fetchLog) = 3
    /\ results # <<>>

\* C7: no page URL appears more than once in the returned list.
C7_NoDuplicatePages ==
    smState = "returned" =>
        \A i, j \in DOMAIN returned : returned[i].url = returned[j].url => i = j

\* C8: every sitemap document is fetched at exactly its declared location.
C8_FetchedAtDeclaredLocation ==
    \A i \in DOMAIN fetchLog : fetchLog[i].url = fetchLog[i].loc

----------------------------------------------------------------------------
(* Claims about the classification of a document and the visited-set *)

\* the document just fetched was parsed
Parsed == Running /\ Top.pc = "fetch" /\ Response.ok /\ Response.wellFormed

\* the entries of a body: those of the array, or the one object
EntriesOf(body) == IF body.isArray THEN body.items ELSE <<body.items[1]>>

\* C27: a parsed document with the sitemap-index shape is processed as an
\* index, whether or not it also has the leaf shape; it is processed as a
\* leaf iff it has not the index shape (and has the leaf shape); a document
\* of neither shape fails the crawl with a validation error; a body of one
\* entry object gives the same one-entry list as a one-element array.
C27_IndexShapeFirst ==
    [][Parsed =>
        LET d == Response IN
          IF d.hasIndex
          THEN stack'[Len(stack)].pc = "index"
                 /\ stack'[Len(stack)].items = EntriesOf(d.sitemap)
                 /\ smState' = "running"
          ELSE IF d.hasUrlset
          THEN stack'[Len(stack)].pc = "leaf"
                 /\ stack'[Len(stack)].items = EntriesOf(d.url)
                 /\ smState' = "running"
          ELSE smState' = "failed" /\ smError' = ZodErrorName]_vars

\* a document of both shapes at the root, processed as an index
C27_Witness ==
    /\ web[UrlA] = BothDoc
    /\ Len(stack) = 1
    /\ Top.pc = "index"
    /\ Top.items = <<UrlB>>

\* C28: every fetch issued so far was for a URL that is in the visited-set,
\* no URL was fetched twice, and a URL enters the visited-set only in the
\* step that passed the limit check and the visited check and issued its
\* fetch.
C28_VisitedBeforeFetch ==
    /\ \A i \in DOMAIN fetchLog : fetchLog[i].url \in visitedUrls
    /\ \A i, j \in DOMAIN fetchLog : fetchLog[i].url = fetchLog[j].url => i = j
    /\ visitedUrls = {fetchLog[i].url : i \in DOMAIN fetchLog}

\* a self-referencing index whose second visit was refused while its first
\* call was still suspended
C28_Witness ==
    /\ Refers(web[UrlA], UrlA)
    /\ Len(stack) = 1
    /\ Top.pc = "index"
    /\ Top.items = <<>>
    /\ FetchCount(UrlA) = 1
    /\ UrlA \in visitedUrls

----------------------------------------------------------------------------
(* Claims about the order of the traversal *)

\* the calls of processSitemap that await their fetch
Outstanding == {i \in DOMAIN stack : stack[i].pc = "fetch"}

\* C31: at most one sitemap fetch is outstanding, that of the innermost call
\* of processSitemap; every other call is suspended in its loop over the
\* child sitemaps, awaiting the one child above it, so a child is started
\* only when the earlier sibling and all calls under it have returned.
C31_StrictlySequential ==
    /\ Cardinality(Outstanding) <= 1
    /\ Outstanding \subseteq {Len(stack)}
    /\ \A i \in 1..(Len(stack) - 1) : stack[i].pc = "index"

\* the second child of the root is being fetched after the first child, a
\* leaf, was processed to its end
C31_Witness ==
    /\ Len(stack) = 2
    /\ Top.pc = "fetch"
    /\ Len(fetchLog) = 3
    /\ results # <<>>
    /\ Len(stack[1].items) = 0

----------------------------------------------------------------------------
(* Claims about a document of both shapes *)

HasBothShapes(d) == d.ok /\ d.wellFormed /\ d.hasIndex /\ d.hasUrlset

\* C33: a document that has both a valid sitemapindex body and a valid
\* urlset body is processed as an index only: the call that fetched it goes
\* through its child sitemaps, never through its url entries; none of its
\* own url entries is in the accumulator, and its child was fetched by the
\* time the crawl returns.
C33_BothShapesIsIndexOnly ==
    /\ \A i \in DOMAIN stack :
          (stack[i].pc \in {"index", "leaf"}
              /\ HasBothShapes(web[ResolveSitemapUrl(stack[i].url, stack[i].path)])) =>
                  stack[i].pc = "index"
    /\ HasBothShapes(web[UrlA]) =>
          /\ \A i \in DOMAIN results : results[i].url # OwnPage
          /\ smState = "returned" => \E i \in DOMAIN fetchLog : fetchLog[i].url = UrlB

\* the crawl of a root of both shapes returned the entries of its child
C33_Witness ==
    /\ web[UrlA] = BothDoc
    /\ smState = "returned"
    /\ returned # <<>>
    /\ FetchCount(UrlB) = 1

----------------------------------------------------------------------------
(* Claims about two calls of analyzeSitemap *)

SecondCall == smPrevious # NoPrevious

\* C32: a second call of analyzeSitemap over the same documents starts with
\* an empty visited-set and an empty accumulator (nothing is visited or
\* collected before its first fetch), and ends as the first call did: the
\* same documents fetched again in the same order and the same list
\* returned, or the same failure.
C32_CallsAreIndependent ==
    /\ (SecondCall /\ fetchLog = <<>> /\ smState = "running") =>
            results = <<>> /\ visitedUrls = {}
    /\ (SecondCall /\ smState # "running") =>
            /\ smState = smPrevious.state
            /\ returned = smPrevious.returned
            /\ fetchLog = smPrevious.fetchLog
            /\ smError = smPrevious.error

\* the second call returned the three entries the first call returned,
\* after fetching the same two documents again
C32_Witness ==
    /\ SecondCall
    /\ smState = "returned"
    /\ Len(returned) = 3
    /\ Len(fetchLog) = 2
    /\ smPrevious.returned = returned

----------------------------------------------------------------------------
(* Strings of the page analysis: a string is a sequence of characters *)

Whitespace == {" ", "\n"}

SentenceEnd == {".", "!", "?"}

RECURSIVE TrimStart(_)
TrimStart(t) ==
    IF t # <<>> /\ Head(t) \in Whitespace THEN TrimStart(Tail(t)) ELSE t

RECURSIVE TrimEnd(_)
TrimEnd(t) ==
    IF t # <<>> /\ t[Len(t)] \in Whitespace
    THEN TrimEnd(SubSeq(t, 1, Len(t) - 1)) ELSE t

\* text.trim()
Trim(t) == TrimEnd(TrimStart(t))

\* text.replace(/\s+/g, " ")
RECURSIVE CollapseWhitespace(_)
CollapseWhitespace(t) ==
    IF t = <<>> THEN <<>>
    ELSE IF Head(t) \in Whitespace
         THEN <<" ">> \o CollapseWhitespace(TrimStart(t))
         ELSE <<Head(t)>> \o CollapseWhitespace(Tail(t))

\* the length of the longest prefix of t without a sentence-terminal character
RECURSIVE PrefixBeforeEnd(_)
PrefixBeforeEnd(t) ==
    IF t = <<>> \/ Head(t) \in SentenceEnd THEN 0 ELSE 1 + PrefixBeforeEnd(Tail(t))

\* normalized.match(/^[^.!?]+[.!?]?/): the matched prefix, <<>> when no match
FirstSentenceMatch(t) ==
    LET n == PrefixBeforeEnd(t) IN
        IF n = 0 THEN <<>>
        ELSE IF n < Len(t) THEN SubSeq(t, 1, n + 1) ELSE t

\* a variant whose no-match branch drops the leading terminal character
normalizeSentenceSkipsLeadingEnd(text) ==
    LET normalized == CollapseWhitespace(Trim(text))
        match == FirstSentenceMatch(normalized)
    IN IF match # <<>> THEN Trim(match)
       ELSE IF normalized # <<>> THEN Tail(normalized) ELSE normalized

normalizeSentence(text) ==
    LET normalized == CollapseWhitespace(Trim(text))
        match == FirstSentenceMatch(normalized)
    IN IF match # <<>> THEN Trim(match) ELSE normalized

----------------------------------------------------------------------------
(* Error messages: a message is the sequence of the pieces it was built    *)
(* from (literals of the source, raw messages of the collaborators, the    *)
(* page URL); message.includes(s) holds when a piece contains s.           *)

PageU1 == "https://site.test/p1"
PageU2 == "https://site.test/docs/OPENAI_API_KEY"

MissingKeyText == "OPENAI_API_KEY environment variable is required. Please set it before running the analysis."
RateLimitText == "OpenAI API rate limit exceeded. Please wait a moment and try again, or reduce concurrency. Original error: "
InvalidKeyText == "Invalid OpenAI API key. Please check your OPENAI_API_KEY environment variable."
ValidateText == "Failed to validate AI response for "
AnalyzeFailedText == "Failed to analyze SEO issues: "
FetchFailedText == "Failed to fetch page content: "
NavigationTimeoutText == "Navigation timeout after 30s. The page may be loading slowly or unresponsive."
NetworkErrorText == "Network error. "
PageFailedText == "Failed to analyze page: "
LaunchFailedText == "Failed to launch browser: "
InstallHintText == ". Ensure Playwright browsers are installed with 'npx playwright install chromium'."
ReduceConcurrencyText == "Wait a moment and try again, or reduce concurrency with --concurrency option."
CheckUrlText == "Check if the URL is accessible and try again."

\* raw messages of the collaborators
RawTimeout == "page.goto: Timeout 30000ms exceeded."
RawNetwork == "page.goto: net::ERR_CONNECTION_REFUSED"
RawHttpStatus == "Failed to fetch page: 500 Internal Server Error"
RawHttp429 == "Failed to fetch page: 429 Too Many Requests"
RawBrowserClosed == "page.goto: Target page, context or browser has been closed"
RawRateLimit == "429 Too Many Requests"
RawUnauthorized == "401 Unauthorized"
RawValidation == "Response failed schema validation"
RawOverloaded == "The model is overloaded"
RawRateLimitAndAuth == "429 after 401"
RawRateLimitWords == "You hit the rate limit of your plan"
RawInvalidKey == "Invalid API key"
RawAuthParse == "Could not parse the authentication header"
RawRateLimitParse == "429: could not parse the retry header"
RawAllPatterns == "401 authentication lost after the rate limit; schema unknown"
RawLaunchFailed == "browserType.launch: Executable doesn't exist"
RawLaunchNoMemory == "spawn ENOMEM"
RawCallbackError == "Cannot read properties of undefined (reading 'write')"

\* the substrings the source tests for, per piece
SubstringsOf(piece) ==
    CASE piece = PageU2 -> {"OPENAI_API_KEY"}
      [] piece = MissingKeyText -> {"OPENAI_API_KEY"}
      [] piece = RateLimitText -> {"rate limit"}
      [] piece = InvalidKeyText -> {"Invalid OpenAI API key", "OPENAI_API_KEY"}
      [] piece = NavigationTimeoutText -> {"timeout"}
      [] piece = LaunchFailedText -> {"browser"}
      [] piece = InstallHintText -> {"browser", "playwright"}
      [] piece = RawTimeout -> {"Timeout"}
      [] piece = RawNetwork -> {"net::ERR"}
      [] piece = RawBrowserClosed -> {"browser"}
      [] piece = RawHttp429 -> {"429"}
      [] piece = RawRateLimit -> {"429"}
      [] piece = RawUnauthorized -> {"401"}
      [] piece = RawValidation -> {"validation", "schema"}
      [] piece = RawRateLimitAndAuth -> {"429", "401"}
      [] piece = RawRateLimitWords -> {"rate limit"}
      [] piece = RawInvalidKey -> {"Invalid API key"}
      [] piece = RawAuthParse -> {"parse", "authentication"}
      [] piece = RawRateLimitParse -> {"429", "parse"}
      [] piece = RawAllPatterns -> {"401", "authentication", "rate limit", "schema"}
      [] piece = RawLaunchFailed -> {"browser"}
      [] OTHER -> {}

\* message.includes(s)
Includes(message, s) == \E i \in DOMAIN message : s \in SubstringsOf(message[i])

----------------------------------------------------------------------------
(* analyzePages *)

InFlightStates == {"fetching", "extracting"}

Min(S) == CHOOSE x \in S : \A y \in S : x <= y

\* the head of p-limit's queue (0: the queue is empty)
NextQueued(t) ==
    LET q == {i \in DOMAIN t : t[i] = "queued"} IN IF q = {} THEN 0 ELSE Min(q)

\* p-limit admits every function regardless of the count
CanAdmitAlways(active) == TRUE

\* p-limit runs one function at a time whatever the concurrency
CanAdmitSingle(active) == active < 1

\* p-limit runs a queued function only while fewer than concurrency are running
CanAdmit(active) == active < concurrency

\* onProgress called with the zero-based index
OnProgressZeroBased(i) ==
    [cb |-> "onProgress", index |-> i - 1, total |-> Len(urls), url |-> urls[i],
     issueCount |-> 0, pushed |-> FALSE]

\* options.onProgress(index + 1, total, url); i is index + 1
\* (pushed: a result of this URL's task is in the accumulator at the call)
OnProgress(i) ==
    [cb |-> "onProgress", index |-> i, total |-> Len(urls), url |-> urls[i],
     issueCount |-> 0, pushed |-> FALSE]

\* options.onComplete(url, n), called with the accumulator being acc
OnComplete(i, n, acc) ==
    [cb |-> "onComplete", index |-> i, total |-> 0, url |-> urls[i], issueCount |-> n,
     pushed |-> \E k \in DOMAIN acc : acc[k].index = i]

\* the state of the scheduler: task states, callback log, active count
Sched(t, c, a) == [task |-> t, calls |-> c, active |-> a]

\* p-limit dequeues one function and runs it to its first await:
\* activeCount++, onProgress(index + 1, total, url), then the page fetch starts
AdmitOne(sc) ==
    LET i == NextQueued(sc.task) IN
        IF i # 0 /\ CanAdmit(sc.active)
        THEN Sched([sc.task EXCEPT ![i] = "fetching"],
                   Append(sc.calls, OnProgress(i)),
                   sc.active + 1)
        ELSE sc

\* urls.map(... limit(...)): every function is queued, then the queue is
\* drained while a slot is free
RECURSIVE AdmitAll(_)
AdmitAll(sc) ==
    IF NextQueued(sc.task) # 0 /\ CanAdmit(sc.active) THEN AdmitAll(AdmitOne(sc)) ELSE sc

\* p-limit's next(): activeCount--, then the head of the queue is run
PLimitNext(sc) == AdmitOne(Sched(sc.task, sc.calls, sc.active - 1))

Severities == <<"High", "Medium", "Low">>

\* the j-th finding of the model's structured response
Finding(j) ==
    [issue |-> <<" ", "a", " ", " ", "b", ".", " ", "c">>,
     severity |-> Severities[((j - 1) % 3) + 1],
     howToFix |-> IF j % 2 = 1 THEN <<"f", "\n", "x", "!", "y">> ELSE <<"n", "o">>]

\* the findings as the map callback returns them
NormalizedFinding ==
    [j \in 1..MaxFindings |->
        [issue |-> normalizeSentence(Finding(j).issue),
         severity |-> Finding(j).severity,
         howToFix |-> normalizeSentence(Finding(j).howToFix)]]

\* every finding kept: validated.issues.map(normalize)
NormalizedIssuesUncapped(k) ==
    [j \in 1..k |->
        NormalizedFinding[j]]

\* validated.issues.slice(0, maxIssues).map(normalize)
NormalizedIssues(k) ==
    [j \in 1..(IF k < maxIssues THEN k ELSE maxIssues) |->
        NormalizedFinding[j]]

\* index is the position of the URL in urls; it is not a field of the result
PageAnalysisResult(i, issues) == [url |-> urls[i], issues |-> issues, index |-> i]

\* a placeholder that always carries the generic advice
ErrorResultGenericAdvice(i, message) ==
    [url |-> urls[i],
     issues |-> <<[issue |-> <<PageFailedText>> \o message,
                   severity |-> "High",
                   howToFix |-> CheckUrlText]>>,
     index |-> i]

\* the result pushed for a contained failure
ErrorResult(i, message) ==
    PageAnalysisResult(i,
        <<[issue |-> <<PageFailedText>> \o message,
           severity |-> "High",
           howToFix |-> IF Includes(message, "rate limit")
                        THEN ReduceConcurrencyText ELSE CheckUrlText]>>)

\* fetchPageContent's catch: the message of the error it throws
FetchErrorMessage(raw) ==
    IF variant = "fetch" THEN <<FetchFailedText>> \o raw
    ELSE IF Includes(raw, "timeout") \/ Includes(raw, "Timeout")
         THEN <<FetchFailedText, NavigationTimeoutText>>
    ELSE IF Includes(raw, "net::ERR") \/ Includes(raw, "Navigation failed")
         THEN <<FetchFailedText, NetworkErrorText>> \o raw
    ELSE <<FetchFailedText>> \o raw

\* the credential test made before the rate-limit test
ExtractErrorMessageCredentialFirst(url, raw) ==
    IF Includes(raw, "401") \/ Includes(raw, "authentication")
            \/ Includes(raw, "Invalid API key")
    THEN <<InvalidKeyText>>
    ELSE IF Includes(raw, "rate limit") \/ Includes(raw, "429")
         THEN <<RateLimitText>> \o raw
    ELSE IF Includes(raw, "validation") \/ Includes(raw, "schema")
            \/ Includes(raw, "parse")
         THEN <<ValidateText, url, ": ">> \o raw
    ELSE <<AnalyzeFailedText>> \o raw

\* analyzeSEOIssues' catch: the message of the error it throws
ExtractErrorMessage(url, raw) ==
    IF Includes(raw, "rate limit") \/ Includes(raw, "429")
    THEN <<RateLimitText>> \o raw
    ELSE IF Includes(raw, "401") \/ Includes(raw, "authentication")
            \/ Includes(raw, "Invalid API key")
         THEN <<InvalidKeyText>>
    ELSE IF Includes(raw, "validation") \/ Includes(raw, "schema")
            \/ Includes(raw, "parse")
         THEN <<ValidateText, url, ": ">> \o raw
    ELSE <<AnalyzeFailedText>> \o raw

\* no error is re-thrown out of the per-page function
IsCriticalNever(message) == FALSE

\* the test that re-throws an error out of the per-page function
IsCritical(message) ==
    Includes(message, "OPENAI_API_KEY") \/ Includes(message, "Invalid OpenAI API key")

\* analyzePages' catch: the error it re-throws
RethrownMessage(message) ==
    IF Includes(message, "browser") \/ Includes(message, "playwright")
    THEN <<LaunchFailedText>> \o message \o <<InstallHintText>>
    ELSE message

RawFetchErrors ==
    IF variant = "browser" /\ browser = "closed" THEN {<<RawBrowserClosed>>}
    ELSE IF variant = "browser" THEN {<<RawTimeout>>, <<RawNetwork>>}
    ELSE {<<RawHttpStatus>>, <<RawHttp429>>}

\* the errors launchBrowser() can throw
RawLaunchErrors == {<<RawLaunchFailed>>, <<RawLaunchNoMemory>>}

RawModelErrors ==
    {<<RawRateLimit>>, <<RawUnauthorized>>, <<RawValidation>>, <<RawOverloaded>>}

UrlList(n) == [i \in 1..n |-> IF i % 2 = 1 THEN PageU1 ELSE PageU2]

\* analyzeSitemap not called
SmIdle ==
    /\ web = WebOf(NeitherDoc, NeitherDoc, NeitherDoc)
    /\ limit = 1
    /\ results = <<>>
    /\ visitedUrls = {}
    /\ stack = <<>>
    /\ fetchLog = <<>>
    /\ smState = "idle"
    /\ smError = ""
    /\ smPrevious = NoPrevious
    /\ returned = <<>>

PgInit ==
    /\ \E n \in 0..MaxUrls :
        /\ urls = UrlList(n)
        /\ task = [i \in 1..n |-> "queued"]
        /\ caught = [i \in 1..n |-> <<>>]
    /\ concurrency \in 1..MaxConcurrency
    /\ maxIssues \in 1..MaxIssuesOption
    /\ apiKey \in BOOLEAN
    /\ variant \in {"fetch", "browser"}
    /\ activeCount = 0
    /\ pgResults = <<>>
    /\ calls = <<>>
    /\ browser = "none"
    /\ launches = 0
    /\ closes = 0
    /\ pgState = "called"
    /\ pgError = <<>>
    /\ pgReturned = <<>>
    /\ SmIdle
    /\ FnIdle
    /\ CliIdle
    /\ FpIdle

AllDone(t) == \A i \in DOMAIN t : t[i] = "done"

\* a Promise.all that waits for every promise before it rejects
PromiseAllWaitsForAll(t, r, e) ==
    IF pgState # "awaiting" \/ (\E i \in DOMAIN t : t[i] \notin {"done", "rejected"})
    THEN UNCHANGED <<pgState, pgError, pgReturned>>
    ELSE /\ pgState' = IF variant = "browser" THEN "closing"
                       ELSE IF AllDone(t) THEN "resolved" ELSE "rejected"
         /\ pgError' = IF AllDone(t) THEN <<>> ELSE <<MissingKeyText>>
         /\ pgReturned' = IF variant = "fetch" /\ AllDone(t) THEN r ELSE pgReturned

\* await Promise.all(...) settles: every promise fulfilled, or the first rejection
\* (t, r: the task states and the accumulator after the step; e: the rejection)
PromiseAllSettles(t, r, e) ==
    IF pgState # "awaiting" \/ (e = <<>> /\ ~AllDone(t))
    THEN UNCHANGED <<pgState, pgError, pgReturned>>
    ELSE IF variant = "browser"
         THEN /\ pgState' = "closing"
              /\ pgError' = IF e = <<>> THEN <<>> ELSE RethrownMessage(e)
              /\ UNCHANGED pgReturned
    ELSE IF e = <<>>
         THEN /\ pgState' = "resolved"
              /\ pgReturned' = r
              /\ UNCHANGED pgError
    ELSE /\ pgState' = "rejected"
         /\ pgError' = e
         /\ UNCHANGED pgReturned

\* urls.map((url, index) => limit(...)) and the admissions that follow
Start ==
    LET sc == AdmitAll(Sched(task, calls, activeCount)) IN
        /\ task' = sc.task
        /\ calls' = sc.calls
        /\ activeCount' = sc.active
        /\ pgState' = IF urls = <<>>
                      THEN (IF variant = "browser" THEN "closing" ELSE "resolved")
                      ELSE "awaiting"
        /\ UNCHANGED <<urls, concurrency, maxIssues, apiKey, variant, pgResults,
                       pgError, caught, pgReturned>>
        /\ UNCHANGED pgOthers

\* analyzePages of the fetch variant is called
StartWithoutBrowser ==
    /\ pgState = "called"
    /\ variant = "fetch"
    /\ Start
    /\ UNCHANGED <<browser, launches, closes>>

\* browser = await launchBrowser() succeeds
LaunchBrowserOk ==
    /\ pgState = "called"
    /\ variant = "browser"
    /\ browser' = "open"
    /\ launches' = launches + 1
    /\ Start
    /\ UNCHANGED closes

\* launchBrowser() throws: the catch re-throws, the finally has no browser to close
LaunchBrowserFails ==
    /\ pgState = "called"
    /\ variant = "browser"
    /\ pgState' = "rejected"
    /\ \E raw \in RawLaunchErrors : pgError' = RethrownMessage(raw)
    /\ UNCHANGED <<urls, concurrency, maxIssues, apiKey, variant, task, activeCount,
                   pgResults, calls, browser, launches, closes, caught, pgReturned>>
    /\ UNCHANGED pgOthers

\* onComplete called before the result is pushed
TaskCompletesCallbackFirst(i, result) ==
    LET sc == PLimitNext(Sched([task EXCEPT ![i] = "done"],
                               Append(calls, OnComplete(i, Len(result.issues), pgResults)),
                               activeCount))
    IN  /\ pgResults' = Append(pgResults, result)
        /\ task' = sc.task
        /\ calls' = sc.calls
        /\ activeCount' = sc.active
        /\ PromiseAllSettles(sc.task, Append(pgResults, result), <<>>)

\* the per-page function returns: result pushed, onComplete called
TaskCompletes(i, result) ==
    LET sc == PLimitNext(Sched([task EXCEPT ![i] = "done"],
                               Append(calls, OnComplete(i, Len(result.issues),
                                                        Append(pgResults, result))),
                               activeCount))
    IN  /\ pgResults' = Append(pgResults, result)
        /\ task' = sc.task
        /\ calls' = sc.calls
        /\ activeCount' = sc.active
        /\ PromiseAllSettles(sc.task, Append(pgResults, result), <<>>)

\* a rejection that empties p-limit's queue: nothing is admitted any more
TaskRejectsClearsQueue(i, message) ==
    /\ UNCHANGED <<pgResults, calls>>
    /\ task' = [task EXCEPT ![i] = "rejected"]
    /\ activeCount' = activeCount - 1
    /\ PromiseAllSettles([task EXCEPT ![i] = "rejected"], pgResults, message)

\* the per-page function re-throws a critical error
TaskRejects(i, message) ==
    LET sc == PLimitNext(Sched([task EXCEPT ![i] = "rejected"], calls, activeCount))
    IN  /\ UNCHANGED pgResults
        /\ task' = sc.task
        /\ calls' = sc.calls
        /\ activeCount' = sc.active
        /\ PromiseAllSettles(sc.task, pgResults, message)

\* a contained failure that leaves no result behind
TaskCatchesWithoutResult(i, message) ==
    IF IsCritical(message)
    THEN caught' = [caught EXCEPT ![i] = message] /\ TaskRejects(i, message)
    ELSE LET sc == PLimitNext(Sched([task EXCEPT ![i] = "done"], calls, activeCount))
         IN  /\ caught' = [caught EXCEPT ![i] = message]
             /\ UNCHANGED pgResults
             /\ task' = sc.task
             /\ calls' = sc.calls
             /\ activeCount' = sc.active
             /\ PromiseAllSettles(sc.task, pgResults, <<>>)

\* the catch block of the per-page function
TaskCatches(i, message) ==
    /\ caught' = [caught EXCEPT ![i] = message]
    /\ IF IsCritical(message)
       THEN TaskRejects(i, message)
       ELSE TaskCompletes(i, ErrorResult(i, message))

PgFrame == UNCHANGED <<urls, concurrency, maxIssues, apiKey, variant, browser>>

\* a browser launched for one page only
LaunchesOwnBrowserAlways == variant = "browser"

\* fetchPageContent(url, browser): if (!pageBrowser) it launches a browser of
\* its own and closes it before it returns or throws
LaunchesOwnBrowser == variant = "browser" /\ browser = "none"

\* the launches and closes of one fetchPageContent call
FetchPageContent ==
    /\ launches' = launches + (IF LaunchesOwnBrowser THEN 1 ELSE 0)
    /\ closes' = closes + (IF LaunchesOwnBrowser THEN 1 ELSE 0)

\* the page fetch of task i succeeds; analyzeSEOIssues tests the API key and
\* calls the model
FetchOk(i) ==
    /\ task[i] = "fetching"
    /\ variant = "browser" => browser = "open"
    /\ IF ~apiKey
       THEN TaskCatches(i, <<MissingKeyText>>)
       ELSE /\ task' = [task EXCEPT ![i] = "extracting"]
            /\ UNCHANGED <<activeCount, pgResults, calls, pgState, pgError, caught,
                           pgReturned>>
    /\ FetchPageContent
    /\ PgFrame
    /\ UNCHANGED pgOthers

\* the page fetch of task i fails
FetchFails(i) ==
    /\ task[i] = "fetching"
    /\ \E raw \in RawFetchErrors : TaskCatches(i, FetchErrorMessage(raw))
    /\ FetchPageContent
    /\ PgFrame
    /\ UNCHANGED pgOthers

\* the model answers task i with k findings
ExtractOk(i) ==
    /\ task[i] = "extracting"
    /\ \E k \in 0..MaxFindings :
        TaskCompletes(i, PageAnalysisResult(i, NormalizedIssues(k)))
    /\ UNCHANGED <<caught, launches, closes>>
    /\ PgFrame
    /\ UNCHANGED pgOthers

\* the model call of task i fails
ExtractFails(i) ==
    /\ task[i] = "extracting"
    /\ \E raw \in RawModelErrors : TaskCatches(i, ExtractErrorMessage(urls[i], raw))
    /\ UNCHANGED <<launches, closes>>
    /\ PgFrame
    /\ UNCHANGED pgOthers

\* finally: await browser.close(); then analyzePages returns or throws
BrowserClose ==
    /\ pgState = "closing"
    /\ browser' = "closed"
    /\ closes' = closes + 1
    /\ IF pgError = <<>>
       THEN pgState' = "resolved" /\ pgReturned' = pgResults
       ELSE pgState' = "rejected" /\ UNCHANGED pgReturned
    /\ UNCHANGED <<urls, concurrency, maxIssues, apiKey, variant, task, activeCount,
                   pgResults, calls, launches, pgError, caught>>
    /\ UNCHANGED pgOthers

PgNext ==
    \/ StartWithoutBrowser
    \/ LaunchBrowserOk
    \/ LaunchBrowserFails
    \/ \E i \in DOMAIN task : FetchOk(i)
    \/ \E i \in DOMAIN task : FetchFails(i)
    \/ \E i \in DOMAIN task : ExtractOk(i)
    \/ \E i \in DOMAIN task : ExtractFails(i)
    \/ BrowserClose

PagesSpec == PgInit /\ [][PgNext]_vars

----------------------------------------------------------------------------
(* Claims about analyzePages *)

InFlight == Cardinality({i \in DOMAIN task : task[i] \in InFlightStates})

\* a task leaves the queue in this step
Admitted(i) == task[i] = "queued" /\ task'[i] # "queued"

\* a task in flight finishes in this step
Finished(j) == task[j] \in InFlightStates /\ task'[j] \notin InFlightStates

\* C9: the number of per-page analyses in flight never exceeds the
\* concurrency limit, and a queued URL is admitted only in a step that finds a
\* free slot or frees one.
C9_BoundedConcurrency ==
    /\ [](InFlight <= concurrency)
    /\ [][\A i \in DOMAIN task : Admitted(i) =>
            \/ InFlight < concurrency
            \/ \E j \in DOMAIN task : Finished(j)]_vars

\* three URLs, two slots: the first finished, the other two are in flight
C9_Witness ==
    /\ pgState = "awaiting"
    /\ Len(urls) = 3
    /\ concurrency = 2
    /\ task[1] = "done"
    /\ task[2] \in InFlightStates
    /\ task[3] \in InFlightStates

IsOnComplete(c) == c.cb = "onComplete"

CompleteCalls == SelectSeq(calls, IsOnComplete)

----------------------------------------------------------------------------
(* Claims about the containment and the escalation of page failures *)

\* the error was thrown by the API key test of analyzeSEOIssues
IsMissingCredential(message) == message # <<>> /\ message[1] = MissingKeyText

\* the error was thrown by the authentication branch of analyzeSEOIssues
IsInvalidCredential(message) == message # <<>> /\ message[1] = InvalidKeyText

IsCredentialFailure(message) ==
    IsMissingCredential(message) \/ IsInvalidCredential(message)

\* the positions of the accumulator that hold a result of task i
ResultsOf(i) == {k \in DOMAIN pgResults : pgResults[k].index = i}

\* the positions of the callback log that hold an onComplete of task i
CompletesOf(i) == {k \in DOMAIN calls : IsOnComplete(calls[k]) /\ calls[k].index = i}

\* the failure of task i left exactly one placeholder and one onComplete(url, 1)
Contained(i) ==
    /\ task[i] = "done"
    /\ Cardinality(ResultsOf(i)) = 1
    /\ \A k \in ResultsOf(i) :
        /\ pgResults[k].url = urls[i]
        /\ Len(pgResults[k].issues) = 1
        /\ pgResults[k].issues[1].severity = "High"
        /\ pgResults[k].issues[1].issue = <<PageFailedText>> \o caught[i]
    /\ Cardinality(CompletesOf(i)) = 1
    /\ \A k \in CompletesOf(i) : calls[k].url = urls[i] /\ calls[k].issueCount = 1

\* C11: every page failure that is not a credential failure is contained: one
\* result for that URL with exactly one issue, of severity High and text
\* 'Failed to analyze page: <message>', one onComplete(url, 1); and it does not
\* stop the batch: analyzePages rejects only for a credential failure (or a
\* browser that did not launch), so every other URL is still reported.
C11_NonFatalFailureContained ==
    /\ \A i \in DOMAIN task :
        caught[i] # <<>> /\ ~IsCredentialFailure(caught[i]) => Contained(i)
    /\ pgState = "rejected" =>
        \/ variant = "browser" /\ launches = 0
        \/ \E i \in DOMAIN task : IsCredentialFailure(caught[i])

\* what the code does contain: every failure its own test does not re-throw
ContainedUnlessCritical ==
    \A i \in DOMAIN task :
        caught[i] # <<>> /\ ~IsCritical(caught[i]) => Contained(i)

\* C12: a missing-credential or invalid-credential failure of a page is
\* re-thrown: the task ends rejected with no result and no onComplete for
\* that page, and analyzePages rejects (after the browser is closed) with the
\* error of a page that re-threw, which is that error when no other page
\* re-threw.
C12_CredentialFailureRejects ==
    \A i \in DOMAIN task :
        IsCredentialFailure(caught[i]) =>
            /\ task[i] = "rejected"
            /\ ResultsOf(i) = {}
            /\ CompletesOf(i) = {}
            /\ pgState \in {"closing", "rejected"}
            /\ \E j \in DOMAIN task : task[j] = "rejected" /\ pgError = caught[j]
            /\ (\A j \in DOMAIN task : task[j] = "rejected" => j = i) =>
                    pgError = caught[i]
            /\ pgReturned = <<>>

\* the second of three pages fails with an invalid key after the first was
\* analyzed; the batch has rejected with that error
C12_Witness ==
    /\ pgState = "rejected"
    /\ variant = "browser"
    /\ Len(urls) = 3
    /\ task[1] = "done"
    /\ caught[1] = <<>>
    /\ IsInvalidCredential(caught[2])
    /\ pgError = <<InvalidKeyText>>
    /\ task[3] = "done"

\* C13: only credential failures are escalated: a task re-throws only an
\* error raised by the missing-key test or by the authentication branch,
\* whatever the message or the page URL contains, and a credential failure is
\* never turned into a per-page result.
C13_OnlyCredentialFailuresFatal ==
    \A i \in DOMAIN task :
        /\ task[i] = "rejected" => IsCredentialFailure(caught[i])
        /\ IsCredentialFailure(caught[i]) => ResultsOf(i) = {}

----------------------------------------------------------------------------
(* Claims about the order of the callbacks *)

IsOnProgress(c) == c.cb = "onProgress"

ProgressCalls == SelectSeq(calls, IsOnProgress)

\* the positions of the callback log that hold an onProgress of task i
ProgressesOf(i) == {k \in DOMAIN calls : IsOnProgress(calls[k]) /\ calls[k].index = i}

\* C14: the onProgress calls made so far are exactly onProgress(1, total,
\* urls[1]), ..., onProgress(k, total, urls[k]) in this order, one for each
\* task that has left the queue (the call is made in the step that admits the
\* task, before its fetch), and the onProgress of a URL precedes its
\* onComplete. The onComplete calls are not ordered (see the witness).
C14_ProgressInIndexOrder ==
    LET progress == ProgressCalls IN
    /\ Len(progress) = Cardinality({i \in DOMAIN task : task[i] # "queued"})
    /\ \A k \in DOMAIN progress :
        /\ progress[k].index = k
        /\ progress[k].total = Len(urls)
        /\ progress[k].url = urls[k]
        /\ task[k] # "queued"
    /\ \A b \in DOMAIN calls :
        ~IsOnProgress(calls[b]) =>
            \A a \in (b + 1)..Len(calls) :
                ~(IsOnProgress(calls[a]) /\ calls[a].index = calls[b].index)

\* three URLs, two slots: onProgress 1, 2, 3 in order, onComplete of the
\* second URL before the onComplete of the first
C14_Witness ==
    /\ Len(urls) = 3
    /\ concurrency = 2
    /\ Len(ProgressCalls) = 3
    /\ Len(CompleteCalls) = 3
    /\ CompleteCalls[1].index = 2
    /\ CompleteCalls[2].index = 3
    /\ CompleteCalls[3].index = 1

\* the callbacks strictly alternate onProgress(1), onComplete, onProgress(2),
\* onComplete, ... whenever concurrency is 1
StrictAlternation ==
    concurrency = 1 =>
        \A k \in DOMAIN calls :
            IF k % 2 = 1
            THEN IsOnProgress(calls[k]) /\ calls[k].index = (k + 1) \div 2
            ELSE IsOnComplete(calls[k]) /\ calls[k].index = k \div 2

UrlsQueued == pgState # "called" /\ ~(variant = "browser" /\ launches = 0)

\* C16: with three URLs and concurrency 3, once analyzePages has queued the
\* URLs the first three callbacks are onProgress(1), onProgress(2),
\* onProgress(3): all three tasks are admitted before any page finishes, so
\* no onComplete precedes them.
C16_AllAdmittedAtOnce ==
    (Len(urls) = 3 /\ concurrency = 3 /\ UrlsQueued) =>
        /\ Len(calls) >= 3
        /\ \A k \in 1..3 : IsOnProgress(calls[k]) /\ calls[k].index = k

\* three onProgress calls, then the first onComplete
C16_Witness ==
    /\ Len(urls) = 3
    /\ concurrency = 3
    /\ Len(calls) = 4
    /\ \A k \in 1..3 : IsOnProgress(calls[k])
    /\ IsOnComplete(calls[4])

----------------------------------------------------------------------------
(* Claims about the shared browser *)

BatchEnded == pgState \in {"resolved", "rejected"}

\* C17: in the browser variant one browser is launched for the batch and no
\* other, every page is analyzed with it, and it is closed exactly once when
\* the batch ends, whether analyzePages resolves or rejects; it is not closed
\* before. (When the launch fails there is no browser to close.)
C17_OneBrowserClosedOnce ==
    /\ variant = "fetch" => launches = 0 /\ closes = 0
    /\ variant = "browser" =>
        /\ launches <= 1
        /\ UrlsQueued => launches = 1
        /\ pgState \in {"awaiting", "closing"} => closes = 0 /\ browser = "open"
        /\ BatchEnded => closes = launches
        /\ BatchEnded /\ launches = 1 => browser = "closed"

\* a batch of three that ended by a fatal page error after another page was
\* reported: one launch, one close
C17_Witness ==
    /\ variant = "browser"
    /\ pgState = "rejected"
    /\ Len(urls) = 3
    /\ \E i \in DOMAIN task : task[i] = "rejected"
    /\ Len(pgResults) >= 1
    /\ launches = 1
    /\ closes = 1

\* C18: the shared browser is never closed while an admitted per-page task
\* has not finished.
C18_NotClosedWhileInFlight ==
    browser = "closed" => \A i \in DOMAIN task : task[i] \notin InFlightStates

\* C19: when the browser cannot be launched, analyzePages rejects with
\* 'Failed to launch browser: <message>. Ensure Playwright browsers are
\* installed ...' whatever the message of the launch failure is, and no page
\* is analyzed.
C19_LaunchFailureWrapped ==
    variant = "browser" /\ launches = 0 /\ pgState = "rejected" =>
        /\ Len(pgError) >= 3
        /\ pgError[1] = LaunchFailedText
        /\ pgError[Len(pgError)] = InstallHintText
        /\ calls = <<>>
        /\ pgResults = <<>>
        /\ \A i \in DOMAIN task : task[i] = "queued"

\* what holds of a failed launch whatever its message: no page is analyzed
NoPageAfterFailedLaunch ==
    variant = "browser" /\ launches = 0 /\ pgState = "rejected" =>
        /\ calls = <<>>
        /\ pgResults = <<>>
        /\ \A i \in DOMAIN task : task[i] = "queued"

----------------------------------------------------------------------------
(* Claims about the error placeholder *)

\* the error was thrown by the rate-limit branch of analyzeSEOIssues
IsRateLimited(message) == message # <<>> /\ message[1] = RateLimitText

\* the error is fetchPageContent's navigation timeout
IsFetchTimeout(message) == message = <<FetchFailedText, NavigationTimeoutText>>

----------------------------------------------------------------------------
(* Claims about the issues of a result *)

\* the result at position k of the accumulator is an error placeholder
IsPlaceholder(k) == caught[pgResults[k].index] # <<>>

\* C21: every result pushed by analyzePages (maxIssues >= 1) has at most
\* maxIssues issues: a successful analysis holds the first findings of the
\* model, in the model's order (severity kept, texts normalized), and an
\* error placeholder holds exactly one issue.
C21_AtMostMaxIssues ==
    \A k \in DOMAIN pgResults :
        /\ Len(pgResults[k].issues) <= maxIssues
        /\ IsPlaceholder(k) => Len(pgResults[k].issues) = 1
        /\ ~IsPlaceholder(k) =>
            /\ Len(pgResults[k].issues) <= MaxFindings
            /\ \A j \in DOMAIN pgResults[k].issues :
                /\ pgResults[k].issues[j].severity = Finding(j).severity
                /\ pgResults[k].issues[j].issue = NormalizedFinding[j].issue
                /\ pgResults[k].issues[j].howToFix = NormalizedFinding[j].howToFix

\* maxIssues 1: a successful analysis cut to one issue (the model returns
\* none or several), next to an error placeholder
C21_Witness ==
    /\ maxIssues = 1
    /\ Len(pgResults) = 2
    /\ ~IsPlaceholder(1)
    /\ Len(pgResults[1].issues) = 1
    /\ pgResults[1].issues[1].severity = "High"
    /\ IsPlaceholder(2)

----------------------------------------------------------------------------
(* Claims about the settling of analyzePages *)

\* task i re-throws in this step
Rejects(i) == task[i] \in InFlightStates /\ task'[i] = "rejected"

\* C29: when a page fails fatally while analyzePages awaits Promise.all, the
\* promise of analyzePages leaves the await in that very step, whatever the
\* other tasks are doing: it is rejected (fetch variant) or on its way through
\* the finally block (browser variant), whose browser.close() is the only
\* thing left to wait for and never depends on another task; the tasks in
\* flight stay in flight.
C29_RejectsWithoutWaiting ==
    /\ [][\A i \in DOMAIN task :
            (Rejects(i) /\ pgState = "awaiting") =>
                /\ pgState' = IF variant = "browser" THEN "closing" ELSE "rejected"
                /\ pgError' # <<>>
                /\ \A j \in DOMAIN task :
                    (j # i /\ task[j] \in InFlightStates) => task'[j] = task[j]]_vars
    /\ [](pgState = "closing" => ENABLED BrowserClose)
    /\ []((\E i \in DOMAIN task : task[i] = "rejected") =>
            pgState \in {"closing", "rejected"})

\* analyzePages has rejected while one page is in flight and one is queued
C29_Witness ==
    /\ pgState = "rejected"
    /\ \E i \in DOMAIN task : task[i] = "rejected"
    /\ \E i \in DOMAIN task : task[i] \in InFlightStates
    /\ \E i \in DOMAIN task : task[i] = "queued"

\* C30: every onComplete(url, n) is invoked with the result of that URL's
\* task already in the accumulator, and n is the number of issues of that
\* result (the only result of that task); in particular on a successful
\* analysis.
C30_ResultBeforeOnComplete ==
    \A c \in DOMAIN calls :
        IsOnComplete(calls[c]) =>
            /\ calls[c].pushed
            /\ Cardinality(ResultsOf(calls[c].index)) = 1
            /\ \A k \in ResultsOf(calls[c].index) :
                /\ pgResults[k].url = calls[c].url
                /\ Len(pgResults[k].issues) = calls[c].issueCount

\* a successful analysis with two issues was reported by onComplete(url, 2)
C30_Witness ==
    /\ Len(pgResults) = 1
    /\ ~IsPlaceholder(1)
    /\ Len(pgResults[1].issues) = 2
    /\ Len(CompleteCalls) = 1
    /\ CompleteCalls[1].issueCount = 2
    /\ CompleteCalls[1].pushed

----------------------------------------------------------------------------
(* Claims about the queue after a fatal failure *)

SomeRejected == \E i \in DOMAIN task : task[i] = "rejected"

SomeQueued == \E i \in DOMAIN task : task[i] = "queued"

----------------------------------------------------------------------------
(* The post-processing functions of the analyzers, each evaluated on its   *)
(* own: normalizeSentence on a text, and the ranking of the lists that the  *)
(* keyword, competitor and comparison analyzers return                      *)

MaxLen == 4
MaxItems == 11

Chars == {"a", " ", "\n", ".", "?", "!"}

\* the texts a model response may carry in a free-text field
Texts == UNION {[1..n -> Chars] : n \in 0..MaxLen}

\* relevance scores are in tenths: 1 is 0.1, 10 is 1.0
MinRelevance == 1
MaxRelevance == 10

\* an entry of a ranked list; id tells the entries of one response apart
Item(i, r) == [id |-> i, relevance |-> r]

\* the lists a model response may carry: n entries, the relevance of the
\* i-th one being a * i + b folded into MinRelevance..MaxRelevance
ModelList(n, a, b) ==
    [i \in 1..n |->
        Item(i, ((a * i + b) % (MaxRelevance - MinRelevance + 1)) + MinRelevance)]

ModelLists ==
    {ModelList(n, a, b) : n \in 0..MaxItems, a \in {0, 1, 3, 7}, b \in 0..9}

\* array.slice(0, n)
SliceTo(s, n) == SubSeq(s, 1, IF Len(s) < n THEN Len(s) ELSE n)

\* x put into the sorted list s, behind the entries that do not rank below it
RECURSIVE InsertByRelevance(_, _)
InsertByRelevance(s, x) ==
    IF s = <<>> THEN <<x>>
    ELSE IF Head(s).relevance >= x.relevance
         THEN <<Head(s)>> \o InsertByRelevance(Tail(s), x)
         ELSE <<x>> \o s

\* array.sort((a, b) => b.relevance - a.relevance): descending and stable
RECURSIVE SortByRelevance(_)
SortByRelevance(s) ==
    IF s = <<>> THEN <<>>
    ELSE InsertByRelevance(SortByRelevance(SubSeq(s, 1, Len(s) - 1)), s[Len(s)])

\* the list cut before it is sorted
SlicedThenSorted(list, k) == SortByRelevance(SliceTo(list, k))

\* list.sort(...).slice(0, k)
SortedThenSliced(list, k) == SliceTo(SortByRelevance(list), k)

MaxKeywords == 10
MaxCompetitors == 5
MaxInsights == 5

RankedFunctions == {"extractKeywords", "findCompetitors", "compareSitesAnalysis"}

\* the messages a failed model call may carry: every combination of the
\* patterns that analyzeSEOIssues tests for
ModelCallErrors ==
    {<<RawRateLimit>>, <<RawRateLimitWords>>, <<RawUnauthorized>>, <<RawInvalidKey>>,
     <<RawValidation>>, <<RawOverloaded>>, <<RawRateLimitAndAuth>>, <<RawAuthParse>>,
     <<RawRateLimitParse>>, <<RawAllPatterns>>}

FailedModelCall(url, raw) == [url |-> url, raw |-> raw]

FnInit ==
    /\ \/ fnName = "normalizeSentence" /\ fnArg \in Texts
       \/ fnName \in RankedFunctions /\ fnArg \in ModelLists
       \/ /\ fnName = "analyzeSEOIssues"
          /\ fnArg \in {FailedModelCall(url, raw) :
                            url \in {PageU1, PageU2}, raw \in ModelCallErrors}
    /\ fnResult = <<>>
    /\ fnState = "called"
    /\ SmIdle
    /\ PgIdle
    /\ CliIdle
    /\ FpIdle

FnReturns(value) ==
    /\ fnState = "called"
    /\ fnResult' = value
    /\ fnState' = "returned"
    /\ UNCHANGED <<fnName, fnArg, smVars, pgVars, cliVars, fpVars>>

NormalizeSentenceReturns ==
    /\ fnName = "normalizeSentence"
    /\ FnReturns(normalizeSentence(fnArg))

ExtractKeywordsReturns ==
    /\ fnName = "extractKeywords"
    /\ FnReturns(SortedThenSliced(fnArg, MaxKeywords))

FindCompetitorsReturns ==
    /\ fnName = "findCompetitors"
    /\ FnReturns(SortedThenSliced(fnArg, MaxCompetitors))

CompareSitesAnalysisReturns ==
    /\ fnName = "compareSitesAnalysis"
    /\ FnReturns(SortedThenSliced(fnArg, MaxInsights))

\* the model call of analyzeSEOIssues fails: its catch block throws the
\* classified error, which the per-page function contains or re-throws
AnalyzeSEOIssuesThrows ==
    /\ fnName = "analyzeSEOIssues"
    /\ fnState = "called"
    /\ fnResult' = ExtractErrorMessage(fnArg.url, fnArg.raw)
    /\ fnState' = IF IsCritical(fnResult') THEN "rethrown" ELSE "contained"
    /\ UNCHANGED <<fnName, fnArg, smVars, pgVars, cliVars, fpVars>>

FnNext ==
    \/ AnalyzeSEOIssuesThrows
    \/ NormalizeSentenceReturns
    \/ ExtractKeywordsReturns
    \/ FindCompetitorsReturns
    \/ CompareSitesAnalysisReturns

FunctionsSpec == FnInit /\ [][FnNext]_vars

----------------------------------------------------------------------------
(* Claims about the post-processing functions *)

Returned(name) == fnState = "returned" /\ fnName = name

\* the position of the first sentence-terminal character of t, 0 if none
FirstTerminal(t) ==
    IF \E i \in DOMAIN t : t[i] \in {".", "?", "!"}
    THEN CHOOSE i \in DOMAIN t :
            /\ t[i] \in {".", "?", "!"}
            /\ \A j \in 1..(i - 1) : t[j] \notin {".", "?", "!"}
    ELSE 0

\* C22: for every input string, normalizeSentence returns the trimmed,
\* whitespace-collapsed string cut immediately after its first '.', '?' or
\* '!', and that whole string when it holds no such character.
C22_CutAfterFirstTerminal ==
    Returned("normalizeSentence") =>
        LET normalized == CollapseWhitespace(Trim(fnArg))
            k == FirstTerminal(normalized)
        IN fnResult = IF k = 0 THEN normalized ELSE SubSeq(normalized, 1, k)

\* the entries of list l that are not among the entries of list r
Dropped(l, r) == {l[j] : j \in DOMAIN l} \ {r[i] : i \in DOMAIN r}

\* r is the k entries of l that rank highest, from highest to lowest
IsTopK(r, l, k) ==
    /\ Len(r) = (IF Len(l) < k THEN Len(l) ELSE k)
    /\ \A i \in 1..(Len(r) - 1) : r[i].relevance >= r[i + 1].relevance
    /\ \A i \in DOMAIN r : \E j \in DOMAIN l : l[j] = r[i]
    /\ \A i, j \in DOMAIN r : r[i] = r[j] => i = j
    /\ \A x \in Dropped(l, r) : \A i \in DOMAIN r : r[i].relevance >= x.relevance

\* C26: the list returned by keyword extraction has at most 10 entries, the
\* lists returned by competitor discovery and by site comparison at most 5;
\* each is sorted by relevance from highest to lowest and is the top-k by
\* relevance of the list the model returned.
C26_TopKByRelevance ==
    /\ Returned("extractKeywords") =>
          Len(fnResult) <= 10 /\ IsTopK(fnResult, fnArg, 10)
    /\ Returned("findCompetitors") =>
          Len(fnResult) <= 5 /\ IsTopK(fnResult, fnArg, 5)
    /\ Returned("compareSitesAnalysis") =>
          Len(fnResult) <= 5 /\ IsTopK(fnResult, fnArg, 5)

\* eleven keywords, the last one among the ten returned, a weaker one dropped
C26_Witness ==
    /\ Returned("extractKeywords")
    /\ Len(fnArg) = 11
    /\ Len(fnResult) = 10
    /\ \E i \in DOMAIN fnResult : fnResult[i].id = 11
    /\ fnResult[1].relevance > fnResult[10].relevance

\* the patterns of the extraction step, tested on the raw message
MatchesRateLimit(raw) == Includes(raw, "rate limit") \/ Includes(raw, "429")

MatchesCredential(raw) ==
    Includes(raw, "401") \/ Includes(raw, "authentication")
        \/ Includes(raw, "Invalid API key")

MatchesValidation(raw) ==
    Includes(raw, "validation") \/ Includes(raw, "schema") \/ Includes(raw, "parse")

\* C34: a failed model call is reported as a rate limit when its message
\* matches the rate-limit pattern, else as an invalid credential when it
\* matches the credential pattern, else as a validation failure when it
\* matches the validation pattern, else as a generic failure; a message that
\* matches the rate-limit and the credential pattern is reported as a rate
\* limit and is contained by the per-page function.
C34_ClassifiedInPriorityOrder ==
    (fnName = "analyzeSEOIssues" /\ fnState # "called") =>
        /\ fnResult[1] =
              (IF MatchesRateLimit(fnArg.raw) THEN RateLimitText
               ELSE IF MatchesCredential(fnArg.raw) THEN InvalidKeyText
               ELSE IF MatchesValidation(fnArg.raw) THEN ValidateText
               ELSE AnalyzeFailedText)
        /\ (MatchesRateLimit(fnArg.raw) /\ MatchesCredential(fnArg.raw)) =>
              /\ fnResult = <<RateLimitText>> \o fnArg.raw
              /\ fnState = "contained"
        /\ (~MatchesRateLimit(fnArg.raw) /\ MatchesCredential(fnArg.raw)) =>
              fnState = "rethrown"

\* '429 after 401' reported as a rate limit and contained
C34_Witness ==
    /\ fnName = "analyzeSEOIssues"
    /\ fnState = "contained"
    /\ fnArg.raw = <<RawRateLimitAndAuth>>
    /\ fnResult[1] = RateLimitText

----------------------------------------------------------------------------
(* The analyze command: option validation, routing and the exit code.      *)
(* analyzeSitemap and analyzePages appear by their outcomes: each call     *)
(* resolves or rejects.                                                    *)

MaxOptionLen == 3

OptionChars == {"0", "1", "5", "-", ".", "a"}

\* the option values a command line may carry
RawValues == UNION {[1..n -> OptionChars] : n \in 0..MaxOptionLen}

Digits == {"0", "1", "2", "3", "5"}

DigitValue(c) ==
    CASE c = "0" -> 0 [] c = "1" -> 1 [] c = "2" -> 2 [] c = "3" -> 3 [] c = "5" -> 5

NaN == [isNaN |-> TRUE, value |-> 0]

Num(n) == [isNaN |-> FALSE, value |-> n]

\* the longest prefix of digits
RECURSIVE DigitPrefix(_)
DigitPrefix(t) ==
    IF t # <<>> /\ Head(t) \in Digits
    THEN <<Head(t)>> \o DigitPrefix(Tail(t)) ELSE <<>>

RECURSIVE DecimalValue(_)
DecimalValue(ds) ==
    IF ds = <<>> THEN 0
    ELSE 10 * DecimalValue(SubSeq(ds, 1, Len(ds) - 1)) + DigitValue(ds[Len(ds)])

\* parseInt(val, 10): an optional sign, then the longest run of digits; what
\* follows is ignored; NaN when there is no digit
ParseInt(val) ==
    LET negative == val # <<>> /\ Head(val) = "-"
        ds == DigitPrefix(IF negative THEN Tail(val) ELSE val)
    IN IF ds = <<>> THEN NaN
       ELSE Num(IF negative THEN 0 - DecimalValue(ds) ELSE DecimalValue(ds))

\* the defaults of .option(...)
DefaultSitemap == "/sitemap.xml"
DefaultLimit == <<"2", "5">>
DefaultConcurrency == <<"1">>
DefaultMaxIssues == <<"3">>

CustomSitemap == "/custom-sitemap.xml"

PageUrlText == "https://example.com"
NotAUrlText == "example"

\* z.string().url()
IsUrlText(u) == u = PageUrlText

\* z.number().int().min(lo).max(hi) after the transform
NumberInRange(n, lo, hi) == ~n.isNaN /\ n.value >= lo /\ n.value <= hi

\* z.number().int().min(lo)
NumberAtLeast(n, lo) == ~n.isNaN /\ n.value >= lo

\* the sitemap member of the options commander hands over: the default when
\* the flag is absent, the value when one is given, and for the flag without
\* a value either the default kept or true, depending on the commander release
SitemapValues(flag) ==
    IF flag = "absent" THEN {DefaultSitemap}
    ELSE IF flag = "bare" THEN {DefaultSitemap, "true"}
    ELSE {CustomSitemap, ""}

\* "true" stands for the boolean true, which is no string
IsString(v) == v # "true"

\* analyzeOptionsSchema.parse({url, ...options}) succeeds
Accepts(o) ==
    /\ IsUrlText(o.url)
    /\ IsString(o.sitemap)
    /\ NumberInRange(ParseInt(o.limit), 1, 100)
    /\ NumberAtLeast(ParseInt(o.concurrency), 1)
    /\ NumberInRange(ParseInt(o.maxIssues), 1, 50)

Options(url, flag, sitemap, l, c, m) ==
    [url |-> url, flag |-> flag, sitemap |-> sitemap,
     limit |-> l, concurrency |-> c, maxIssues |-> m]

CliInit ==
    /\ \E url \in {PageUrlText, NotAUrlText} :
       \E flag \in {"absent", "bare", "path"} :
       \E sitemap \in SitemapValues(flag) :
       \E raw \in RawValues :
          cliOptions \in
            {Options(url, flag, sitemap, DefaultLimit, DefaultConcurrency, DefaultMaxIssues),
             Options(url, flag, sitemap, raw, DefaultConcurrency, DefaultMaxIssues),
             Options(url, flag, sitemap, DefaultLimit, raw, DefaultMaxIssues),
             Options(url, flag, sitemap, DefaultLimit, DefaultConcurrency, raw)}
    /\ cliPc = "start"
    /\ cliCalls = <<>>
    /\ cliError = ""
    /\ exitCode = -1
    /\ SmIdle
    /\ PgIdle
    /\ FnIdle
    /\ FpIdle

cliOthers == <<smVars, pgVars, fnVars, fpVars>>

Call(fn, target, pages, l, c, m) ==
    [fn |-> fn, target |-> target, pages |-> pages,
     limit |-> l, concurrency |-> c, maxIssues |-> m,
     outcome |-> "pending", placeholders |-> 0]

LastCall == cliCalls[Len(cliCalls)]

Settle(outcome, placeholders) ==
    [cliCalls EXCEPT ![Len(cliCalls)] =
        [@ EXCEPT !.outcome = outcome, !.placeholders = placeholders]]

\* analyzeOptionsSchema.parse throws
ValidationFails ==
    /\ cliPc = "start"
    /\ ~Accepts(cliOptions)
    /\ cliError' = ZodErrorName
    /\ cliPc' = "catch"
    /\ UNCHANGED <<cliOptions, cliCalls, exitCode, cliOthers>>

\* validatedOptions.sitemap is truthy: analyzeSitemapMode calls analyzeSitemap
RouteToSitemapMode ==
    /\ cliPc = "start"
    /\ Accepts(cliOptions)
    /\ cliOptions.sitemap # ""
    /\ cliCalls' = Append(cliCalls,
          Call("analyzeSitemap", cliOptions.sitemap, 0,
               ParseInt(cliOptions.limit).value, 0, 0))
    /\ cliPc' = "awaitSitemap"
    /\ UNCHANGED <<cliOptions, cliError, exitCode, cliOthers>>

\* validatedOptions.sitemap is falsy: analyzeSinglePage calls analyzePages
RouteToSinglePage ==
    /\ cliPc = "start"
    /\ Accepts(cliOptions)
    /\ cliOptions.sitemap = ""
    /\ cliCalls' = Append(cliCalls,
          Call("analyzePages", cliOptions.url, 1,
               0, 1, ParseInt(cliOptions.maxIssues).value))
    /\ cliPc' = "awaitPages"
    /\ UNCHANGED <<cliOptions, cliError, exitCode, cliOthers>>

\* analyzeSitemap resolves with n results: analyzePages is called on their URLs
AnalyzeSitemapResolves(n) ==
    /\ cliPc = "awaitSitemap"
    /\ n <= LastCall.limit
    /\ cliCalls' = Append(Settle("resolved", 0),
          Call("analyzePages", "sitemapResults", n,
               0, ParseInt(cliOptions.concurrency).value,
               ParseInt(cliOptions.maxIssues).value))
    /\ cliPc' = "awaitPages"
    /\ UNCHANGED <<cliOptions, cliError, exitCode, cliOthers>>

\* analyzeSitemap rejects: a fetch or parse failure (Error) or a ZodError
AnalyzeSitemapRejects(error) ==
    /\ cliPc = "awaitSitemap"
    /\ cliCalls' = Settle("rejected", 0)
    /\ cliError' = error
    /\ cliPc' = "catch"
    /\ UNCHANGED <<cliOptions, exitCode, cliOthers>>

\* analyzePages resolves, k of its results being error placeholders;
\* displayResults prints them and the action handler returns
AnalyzePagesResolves(k) ==
    /\ cliPc = "awaitPages"
    /\ k <= LastCall.pages
    /\ cliCalls' = Settle("resolved", k)
    /\ cliPc' = "exited"
    /\ exitCode' = 0
    /\ UNCHANGED <<cliOptions, cliError, cliOthers>>

\* analyzePages rejects: a credential or launch failure (Error), or a value
\* that is no Error
AnalyzePagesRejects(error) ==
    /\ cliPc = "awaitPages"
    /\ cliCalls' = Settle("rejected", 0)
    /\ cliError' = error
    /\ cliPc' = "catch"
    /\ UNCHANGED <<cliOptions, exitCode, cliOthers>>

ErrorName == "Error"
UnknownError == "unknown"

\* only instances of Error make the exit code non-zero
ExitCodeForErrorsOnly(error) == IF error = UnknownError THEN 0 ELSE 1

\* the three branches of the catch block: each ends in process.exit(1)
ExitCodeFor(error) ==
    IF error = ZodErrorName THEN 1
    ELSE IF error = ErrorName THEN 1
    ELSE 1

CatchExits ==
    /\ cliPc = "catch"
    /\ exitCode' = ExitCodeFor(cliError)
    /\ cliPc' = "exited"
    /\ UNCHANGED <<cliOptions, cliCalls, cliError, cliOthers>>

CliNext ==
    \/ ValidationFails
    \/ RouteToSitemapMode
    \/ RouteToSinglePage
    \/ \E n \in 0..MaxUrls : AnalyzeSitemapResolves(n)
    \/ \E error \in {ErrorName, ZodErrorName} : AnalyzeSitemapRejects(error)
    \/ \E k \in 0..MaxUrls : AnalyzePagesResolves(k)
    \/ \E error \in {ErrorName, UnknownError} : AnalyzePagesRejects(error)
    \/ CatchExits

CommandSpec == CliInit /\ [][CliNext]_vars

----------------------------------------------------------------------------
(* Claims about the analyze command *)

Exited == cliPc = "exited"

\* the text of an integer: an optional sign and digits, nothing else
IsIntegerText(val) ==
    LET body == IF val # <<>> /\ Head(val) = "-" THEN Tail(val) ELSE val
    IN body # <<>> /\ \A i \in DOMAIN body : body[i] \in Digits

IntegerOf(val) ==
    IF Head(val) = "-" THEN 0 - DecimalValue(Tail(val)) ELSE DecimalValue(val)

IsIntegerTextIn(val, lo, hi) ==
    IsIntegerText(val) /\ IntegerOf(val) >= lo /\ IntegerOf(val) <= hi

IsIntegerTextAtLeast(val, lo) ==
    IsIntegerText(val) /\ IntegerOf(val) >= lo

\* C23: analyzeSitemap or analyzePages is called only when --limit is an
\* integer in 1..100, --concurrency an integer >= 1 and --max-issues an
\* integer in 1..50 (any other value is rejected before the first call), and
\* every call carries values in those ranges.
C23_RejectedBeforeAnyCall ==
    /\ cliCalls # <<>> =>
          /\ IsIntegerTextIn(cliOptions.limit, 1, 100)
          /\ IsIntegerTextAtLeast(cliOptions.concurrency, 1)
          /\ IsIntegerTextIn(cliOptions.maxIssues, 1, 50)
    /\ \A i \in DOMAIN cliCalls :
          IF cliCalls[i].fn = "analyzeSitemap"
          THEN cliCalls[i].limit \in 1..100
          ELSE cliCalls[i].concurrency >= 1 /\ cliCalls[i].maxIssues \in 1..50

\* C24: the process exits with code 1 when the validation failed or a call
\* of analyzeSitemap or analyzePages rejected (with a ZodError, an Error or
\* a value that is no Error), and with code 0 otherwise, however many of the
\* results are error placeholders; it has no exit code before.
C24_ExitCode ==
    /\ Exited =>
          exitCode = (IF cliCalls = <<>>
                         \/ \E i \in DOMAIN cliCalls : cliCalls[i].outcome = "rejected"
                      THEN 1 ELSE 0)
    /\ ~Exited => exitCode = -1

\* a sitemap run in which every page failed and was contained: exit code 0
C24_Witness ==
    /\ Exited
    /\ exitCode = 0
    /\ Len(cliCalls) = 2
    /\ LastCall.pages = 2
    /\ LastCall.placeholders = 2

\* C25: without --sitemap the command fetches no sitemap and analyzes the one
\* page of its url argument; analyzeSitemap is called only when --sitemap is
\* given, for /sitemap.xml when the option has no value.
C25_SitemapModeOnlyWithFlag ==
    /\ cliOptions.flag = "absent" =>
          \A i \in DOMAIN cliCalls :
              /\ cliCalls[i].fn = "analyzePages"
              /\ cliCalls[i].target = cliOptions.url
              /\ cliCalls[i].pages = 1
    /\ cliOptions.flag = "bare" =>
          \A i \in DOMAIN cliCalls :
              cliCalls[i].fn = "analyzeSitemap" => cliCalls[i].target = "/sitemap.xml"

\* C38: normalizeSentence is idempotent: normalizing its own result gives
\* that result again, for every input string.
C38_Idempotent ==
    Returned("normalizeSentence") => normalizeSentence(fnResult) = fnResult

\* an input with surrounding whitespace, a whitespace run and text after the
\* first terminal character: the result differs from the input
C38_Witness ==
    /\ Returned("normalizeSentence")
    /\ fnArg = <<" ", "a", ".", "a">>
    /\ fnResult = <<"a", ".">>

\* C37: with concurrency 1 and no fatal failure the list analyzePages
\* resolves with is in input order: the result at position i is the result
\* for the i-th input URL.
C37_InputOrderWhenSerial ==
    (pgState = "resolved" /\ concurrency = 1) =>
        /\ Len(pgReturned) = Len(urls)
        /\ \A k \in DOMAIN pgReturned :
            pgReturned[k].index = k /\ pgReturned[k].url = urls[k]

\* three URLs analyzed one at a time, the second with a contained failure:
\* its placeholder is the second entry
C37_Witness ==
    /\ pgState = "resolved"
    /\ concurrency = 1
    /\ Len(urls) = 3
    /\ Len(pgReturned) = 3
    /\ pgReturned[2].index = 2
    /\ pgReturned[2].issues[1].issue[1] = PageFailedText
    /\ pgReturned[3].index = 3

----------------------------------------------------------------------------
(* analyzePages with caller-supplied callbacks that may throw. The calls  *)
(* of onProgress and onComplete sit inside the try block of the per-page   *)
(* function, and onComplete is called again inside its catch block.        *)

\* which callback invocations of a step throw: onProgress of these queued
\* tasks, onComplete in the try block of the settling tasks S, onComplete in
\* the catch block of either
Throwing(S) ==
    LET queued == {j \in DOMAIN task : task[j] = "queued"} IN
        [onProgress : SUBSET queued,
         onComplete : SUBSET S,
         onCompleteInCatch : SUBSET (S \cup queued)]

\* the accumulator, the callback log, the scheduler and the first rejection
RunState ==
    [task |-> task, calls |-> calls, active |-> activeCount, results |-> pgResults,
     caught |-> caught, error |-> <<>>]

\* the per-page function rejects with message
Rethrown(rs, i, message) ==
    [rs EXCEPT !.task[i] = "rejected",
               !.error = IF @ = <<>> THEN message ELSE @]

\* catch (error): a critical error is re-thrown; otherwise the placeholder is
\* pushed and onComplete(url, 1) called, whose exception leaves the function
CatchBlock(rs, i, message, th) ==
    IF IsCritical(message)
    THEN Rethrown([rs EXCEPT !.caught[i] = message], i, message)
    ELSE LET pushed == Append(rs.results, ErrorResult(i, message))
             called == [rs EXCEPT !.caught[i] = message,
                                  !.results = pushed,
                                  !.calls = Append(@, OnComplete(i, 1, pushed))]
         IN  IF i \in th.onCompleteInCatch
             THEN Rethrown(called, i, <<RawCallbackError>>)
             ELSE [called EXCEPT !.task[i] = "done"]

\* the try block after the page analysis: results.push(result), then
\* onComplete(url, result.issues.length), whose exception enters the catch block
TryBlockAfterAnalysis(rs, i, result, th) ==
    LET pushed == Append(rs.results, result)
        called == [rs EXCEPT !.results = pushed,
                             !.calls = Append(@, OnComplete(i, Len(result.issues), pushed))]
    IN  IF i \in th.onComplete
        THEN CatchBlock(called, i, <<RawCallbackError>>, th)
        ELSE [called EXCEPT !.task[i] = "done"]

\* p-limit's next() after a function settled: activeCount--
Released(rs) == [rs EXCEPT !.active = @ - 1]

\* p-limit runs the head of the queue to its first await: onProgress is
\* called inside the try block; when it throws the catch block runs, the
\* function settles at once and the next one is dequeued
RECURSIVE RunQueued(_, _)
RunQueued(rs, th) ==
    LET i == NextQueued(rs.task) IN
        IF i = 0 \/ ~CanAdmit(rs.active) THEN rs
        ELSE LET started == [rs EXCEPT !.calls = Append(@, OnProgress(i)),
                                       !.active = @ + 1]
             IN  IF i \in th.onProgress
                 THEN RunQueued(Released(CatchBlock(started, i, <<RawCallbackError>>, th)), th)
                 ELSE [started EXCEPT !.task[i] = "fetching"]

\* urls.map((url, index) => limit(...)) with callbacks that may throw
RECURSIVE RunAllQueued(_, _)
RunAllQueued(rs, th) ==
    IF NextQueued(rs.task) # 0 /\ CanAdmit(rs.active)
    THEN RunAllQueued(RunQueued(rs, th), th)
    ELSE rs

\* the step's effect on the state, and await Promise.all(...): it rejects
\* with the first rejection and resolves when every promise is fulfilled
Commit(rs) ==
    /\ task' = rs.task
    /\ calls' = rs.calls
    /\ activeCount' = rs.active
    /\ pgResults' = rs.results
    /\ caught' = rs.caught
    /\ IF pgState \in {"resolved", "rejected"}
       THEN UNCHANGED <<pgState, pgError, pgReturned>>
       ELSE IF rs.error # <<>>
            THEN pgState' = "rejected" /\ pgError' = rs.error /\ UNCHANGED pgReturned
       ELSE IF AllDone(rs.task)
            THEN pgState' = "resolved" /\ pgReturned' = rs.results /\ UNCHANGED pgError
       ELSE pgState' = "awaiting" /\ UNCHANGED <<pgError, pgReturned>>
    /\ UNCHANGED <<urls, concurrency, maxIssues, apiKey, variant, browser, launches,
                   closes>>
    /\ UNCHANGED pgOthers

\* analyzePages (fetch variant) called with an API key and both callbacks
CallbacksInit ==
    /\ PgInit
    /\ variant = "fetch"
    /\ apiKey
    /\ maxIssues = 1

\* analyzePages queues every URL
StartWithCallbacks ==
    /\ pgState = "called"
    /\ \E th \in Throwing({}) : Commit(RunAllQueued(RunState, th))

\* the fetch and the model call of task i succeed with k findings
PageAnalysisResolves(i) ==
    /\ task[i] = "fetching"
    /\ \E th \in Throwing({i}), k \in 0..MaxFindings :
        LET result == PageAnalysisResult(i, NormalizedIssues(k))
        IN  Commit(RunQueued(Released(TryBlockAfterAnalysis(RunState, i, result, th)), th))

\* the errors of the page fetch and of the model call
PageAnalysisErrors(i) ==
    {FetchErrorMessage(raw) : raw \in RawFetchErrors}
        \cup {ExtractErrorMessage(urls[i], raw) : raw \in {<<RawUnauthorized>>, <<RawOverloaded>>}}

\* the fetch or the model call of task i throws
PageAnalysisThrows(i) ==
    /\ task[i] = "fetching"
    /\ \E th \in Throwing({i}), message \in PageAnalysisErrors(i) :
        Commit(RunQueued(Released(CatchBlock(RunState, i, message, th)), th))

CallbacksNext ==
    \/ StartWithCallbacks
    \/ \E i \in DOMAIN task : PageAnalysisResolves(i)
    \/ \E i \in DOMAIN task : PageAnalysisThrows(i)

CallbacksSpec == CallbacksInit /\ [][CallbacksNext]_vars

PushedBy(i) == {k \in DOMAIN pgResults : pgResults[k].index = i}

CompletedBy(i) == {c \in DOMAIN calls : calls[c].cb = "onComplete" /\ calls[c].index = i}

\* C36: each per-page task appends at most one entry to the result
\* accumulator and invokes onComplete at most once, also when a
\* caller-supplied onProgress or onComplete callback throws.
C36_OneEntryOneCompletion ==
    \A i \in DOMAIN urls :
        /\ Cardinality(PushedBy(i)) <= 1
        /\ Cardinality(CompletedBy(i)) <= 1

----------------------------------------------------------------------------
(* fetchPageContent and its caller compareSites (lib/seo-html-cleaner.ts): *)
(* browsers and pages. A page counts as closed once page.close() was       *)
(* called on it and settled; a browser likewise.                           *)

\* the locals of a fetchPageContent call: let shouldCloseBrowser = false;
\* let pageBrowser = browser ("given": the argument, "own": launched here)
NewCall(given) ==
    [pc |-> IF given THEN "newPage" ELSE "launching",
     pageBrowser |-> IF given THEN "given" ELSE "none",
     shouldCloseBrowser |-> FALSE,
     own |-> "none",
     page |-> "none",
     error |-> ""]

FpInit ==
    /\ \E fn \in {"fetchPageContent", "compareSites"} :
        fpCaller = [fn |-> fn, pc |-> "called", shouldCloseBrowser |-> FALSE]
    /\ \E state \in {"none", "open", "closed"} :
        fpBrowser = [state |-> state, closedBy |-> {}]
    /\ fpCalls = <<>>
    /\ SmIdle
    /\ PgIdle
    /\ FnIdle
    /\ CliIdle

Settled(c) == c.pc \in {"returned", "thrown"}

\* a call that closes whatever browser it works with
ClosesBrowserAlways(c) == c.pageBrowser # "none"

\* if (shouldCloseBrowser && pageBrowser)
ClosesBrowser(c) == c.shouldCloseBrowser /\ c.pageBrowser # "none"

\* await pageBrowser.close().catch(() => {}) under that condition
\* (st: the call's locals and the browser it was given)
CloseBrowserIfOwned(st) ==
    IF ~ClosesBrowser(st.call) THEN st
    ELSE IF st.call.pageBrowser = "own"
         THEN [st EXCEPT !.call.own = "closed"]
         ELSE [st EXCEPT !.given.state = "closed",
                         !.given.closedBy = @ \cup {"fetchPageContent"}]

\* compareSites' finally: it closes the browser it launched
CompareSitesFinally(b) ==
    IF fpCaller.shouldCloseBrowser /\ b.state # "none"
    THEN [b EXCEPT !.state = "closed", !.closedBy = @ \cup {"compareSites"}]
    ELSE b

CallState(k) == [call |-> fpCalls[k], given |-> fpBrowser]

\* the browser the call works with accepts commands
BrowserUsable(c) ==
    IF c.pageBrowser = "own" THEN c.own = "open" ELSE fpBrowser.state = "open"

\* call k goes on to its next await
Proceeds(k, c) ==
    /\ fpCalls' = [fpCalls EXCEPT ![k] = c]
    /\ UNCHANGED <<fpCaller, fpBrowser>>

\* call k returns or throws, and its caller reacts: compareSites awaits
\* Promise.all of the two calls, which rejects with the first rejection
\* (catch and finally run) and resolves when both returned
Settles(k, st, outcome) ==
    LET cs == [fpCalls EXCEPT ![k] = [st.call EXCEPT !.pc = outcome]] IN
        /\ fpCalls' = cs
        /\ IF fpCaller.fn = "fetchPageContent"
           THEN fpCaller' = [fpCaller EXCEPT !.pc = outcome] /\ fpBrowser' = st.given
           ELSE IF fpCaller.pc = "fetching" /\ outcome = "thrown"
                THEN /\ fpCaller' = [fpCaller EXCEPT !.pc = "thrown"]
                     /\ fpBrowser' = CompareSitesFinally(st.given)
           ELSE IF fpCaller.pc = "fetching" /\ \A j \in DOMAIN cs : cs[j].pc = "returned"
                THEN /\ fpCaller' = [fpCaller EXCEPT !.pc = "analyzing"]
                     /\ fpBrowser' = st.given
           ELSE fpCaller' = fpCaller /\ fpBrowser' = st.given

\* the outer catch: the browser is closed "if we created it", the error of
\* the failed await is wrapped and thrown
OuterCatch(k, st, await) ==
    Settles(k, CloseBrowserIfOwned([st EXCEPT !.call.error = await]), "thrown")

\* the inner catch closes the page, the inner finally closes the browser,
\* then the outer catch runs
InnerCatch(k, st, await) ==
    OuterCatch(k, CloseBrowserIfOwned([st EXCEPT !.call.page = "closed"]), await)

FpFrame == UNCHANGED <<smVars, pgVars, fnVars, cliVars>>

\* fetchPageContent(url, browser) called directly
FetchPageContentCalled ==
    /\ fpCaller.fn = "fetchPageContent"
    /\ fpCaller.pc = "called"
    /\ fpCaller' = [fpCaller EXCEPT !.pc = "fetching"]
    /\ fpCalls' = <<NewCall(fpBrowser.state # "none")>>
    /\ UNCHANGED fpBrowser
    /\ FpFrame

\* compareSites(mainUrl, secondaryUrl, keywords, browser) called; with a
\* browser it starts both fetches at once
CompareSitesCalled ==
    /\ fpCaller.fn = "compareSites"
    /\ fpCaller.pc = "called"
    /\ IF fpBrowser.state = "none"
       THEN fpCaller' = [fpCaller EXCEPT !.pc = "launching"] /\ UNCHANGED fpCalls
       ELSE /\ fpCaller' = [fpCaller EXCEPT !.pc = "fetching"]
            /\ fpCalls' = <<NewCall(TRUE), NewCall(TRUE)>>
    /\ UNCHANGED fpBrowser
    /\ FpFrame

\* compareSites: pageBrowser = await launchBrowser(); shouldCloseBrowser = true
CompareSitesLaunchOk ==
    /\ fpCaller.fn = "compareSites"
    /\ fpCaller.pc = "launching"
    /\ fpCaller' = [fpCaller EXCEPT !.pc = "fetching", !.shouldCloseBrowser = TRUE]
    /\ fpBrowser' = [fpBrowser EXCEPT !.state = "open"]
    /\ fpCalls' = <<NewCall(TRUE), NewCall(TRUE)>>
    /\ FpFrame

\* compareSites: launchBrowser() throws; nothing to close
CompareSitesLaunchFails ==
    /\ fpCaller.fn = "compareSites"
    /\ fpCaller.pc = "launching"
    /\ fpCaller' = [fpCaller EXCEPT !.pc = "thrown"]
    /\ UNCHANGED <<fpBrowser, fpCalls>>
    /\ FpFrame

\* compareSitesAnalysis resolves or rejects; the finally closes the browser
CompareSitesAnalysisSettles ==
    /\ fpCaller.fn = "compareSites"
    /\ fpCaller.pc = "analyzing"
    /\ \E outcome \in {"returned", "thrown"} :
        fpCaller' = [fpCaller EXCEPT !.pc = outcome]
    /\ fpBrowser' = CompareSitesFinally(fpBrowser)
    /\ UNCHANGED fpCalls
    /\ FpFrame

\* pageBrowser = await launchBrowser(); shouldCloseBrowser = true
LaunchOk(k) ==
    /\ fpCalls[k].pc = "launching"
    /\ Proceeds(k, [fpCalls[k] EXCEPT !.pc = "newPage", !.pageBrowser = "own",
                                      !.own = "open", !.shouldCloseBrowser = TRUE])
    /\ FpFrame

\* launchBrowser() throws
LaunchFails(k) ==
    /\ fpCalls[k].pc = "launching"
    /\ OuterCatch(k, CallState(k), "launchBrowser")
    /\ FpFrame

\* const page = await pageBrowser.newPage()
NewPageOk(k) ==
    /\ fpCalls[k].pc = "newPage"
    /\ BrowserUsable(fpCalls[k])
    /\ Proceeds(k, [fpCalls[k] EXCEPT !.pc = "goto", !.page = "open"])
    /\ FpFrame

\* newPage() throws, outside the inner try
NewPageFails(k) ==
    /\ fpCalls[k].pc = "newPage"
    /\ OuterCatch(k, CallState(k), "newPage")
    /\ FpFrame

\* await page.goto(url, ...)
GotoOk(k) ==
    /\ fpCalls[k].pc = "goto"
    /\ BrowserUsable(fpCalls[k])
    /\ Proceeds(k, [fpCalls[k] EXCEPT !.pc = "content"])
    /\ FpFrame

\* page.goto throws (timeout, network error, browser gone)
GotoFails(k) ==
    /\ fpCalls[k].pc = "goto"
    /\ InnerCatch(k, CallState(k), "goto")
    /\ FpFrame

\* const html = await page.content()
ContentOk(k) ==
    /\ fpCalls[k].pc = "content"
    /\ BrowserUsable(fpCalls[k])
    /\ Proceeds(k, [fpCalls[k] EXCEPT !.pc = "closePage"])
    /\ FpFrame

\* page.content() throws
ContentFails(k) ==
    /\ fpCalls[k].pc = "content"
    /\ InnerCatch(k, CallState(k), "content")
    /\ FpFrame

\* await page.close(); return html; the inner finally closes the browser
PageCloseOk(k) ==
    /\ fpCalls[k].pc = "closePage"
    /\ Settles(k, CloseBrowserIfOwned([CallState(k) EXCEPT !.call.page = "closed"]),
               "returned")
    /\ FpFrame

\* await page.close() throws inside the try
PageCloseFails(k) ==
    /\ fpCalls[k].pc = "closePage"
    /\ InnerCatch(k, CallState(k), "close")
    /\ FpFrame

FpNext ==
    \/ FetchPageContentCalled
    \/ CompareSitesCalled
    \/ CompareSitesLaunchOk
    \/ CompareSitesLaunchFails
    \/ CompareSitesAnalysisSettles
    \/ \E k \in DOMAIN fpCalls : LaunchOk(k)
    \/ \E k \in DOMAIN fpCalls : LaunchFails(k)
    \/ \E k \in DOMAIN fpCalls : NewPageOk(k)
    \/ \E k \in DOMAIN fpCalls : NewPageFails(k)
    \/ \E k \in DOMAIN fpCalls : GotoOk(k)
    \/ \E k \in DOMAIN fpCalls : GotoFails(k)
    \/ \E k \in DOMAIN fpCalls : ContentOk(k)
    \/ \E k \in DOMAIN fpCalls : ContentFails(k)
    \/ \E k \in DOMAIN fpCalls : PageCloseOk(k)
    \/ \E k \in DOMAIN fpCalls : PageCloseFails(k)

FetchSpec == FpInit /\ [][FpNext]_vars

\* C39: fetchPageContent never closes a browser supplied by its caller, on
\* success or on failure; a browser it launched itself is closed when it
\* returns or throws; and every page it opened is closed by then.
C39_BrowserAndPagesReleased ==
    /\ "fetchPageContent" \notin fpBrowser.closedBy
    /\ \A k \in DOMAIN fpCalls :
        /\ fpCalls[k].pageBrowser = "given" => ~fpCalls[k].shouldCloseBrowser
        /\ Settled(fpCalls[k]) =>
            /\ fpCalls[k].own # "open"
            /\ fpCalls[k].page # "open"

\* compareSites with the caller's browser: the first fetch failed at
\* page.goto, the second returned; both pages are closed and the browser is
\* still open
C39_Witness ==
    /\ fpCaller.fn = "compareSites"
    /\ fpCaller.pc = "thrown"
    /\ fpBrowser = [state |-> "open", closedBy |-> {}]
    /\ Len(fpCalls) = 2
    /\ fpCalls[1].pc = "thrown"
    /\ fpCalls[1].error = "goto"
    /\ fpCalls[1].page = "closed"
    /\ fpCalls[2].pc = "returned"
    /\ fpCalls[2].page = "closed"

====
